---- MODULE Spec2Model ----
(***************************************************************************)
(* Transfer execution engine of walioss: the transfer limiter, the        *)
(* Enqueue operations, runTransfer / runOssutilWithProgress, the stored   *)
(* ossutil path with its fallback, and the operations that touch it.      *)
(*                                                                         *)
(* Strings are sequences of one-character strings, so that TrimSpace,     *)
(* stripANSI and the ring buffer work on bytes as the Go code does.       *)
(***************************************************************************)
EXTENDS Integers, Sequences, FiniteSets, TLC

\* ------------------------------------------------------------------ bounds
\* Jobs that may be enqueued in one behaviour (transferSeq is capped in the guards).
MaxJobs == 2
\* Jobs that may be enqueued where only their admission is followed.
MaxAdmitJobs == 3
\* Output lines one external process may print before it exits: in the engine,
\* and where a single job is followed.
MaxEngineLines == 1
MaxLines == 2
MaxProgressLines == 2
MaxPercentLines == 2
\* Largest capacity a ringBuffer is constructed with, and the bytes it is
\* given in all.
MaxRingCap == 4
MaxRingBytes == 8
\* Bytes the reader of a splitOnCRLF call holds, and the most one Read returns
\* (the buffer of 4096 bytes, scaled down).
MaxSplitBytes == 5
MaxChunk == 3
\* Lines the process writes to one of its output streams before it exits;
\* lines a pipe holds before a write to it blocks (the pipe buffer of the
\* system, scaled down); and the capacity of the channel segments (128,
\* scaled down).
MaxOutput == 4
MaxPipeLines == 1
MaxSegments == 1
\* Largest value passed to setMaxTransferThreads.
MaxLimit == 2
\* The clock stops here (milliseconds since the first call).
MaxTime == 500

\* ----------------------------------------------------------------- strings
\* The white space strings.TrimSpace removes (of the characters modelled).
WS == {" ", "\t", "\n", "\r", "\f"}

RECURSIVE TrimLeft(_)
TrimLeft(s) ==
    IF s # <<>> /\ Head(s) \in WS THEN TrimLeft(Tail(s)) ELSE s

RECURSIVE TrimRight(_)
TrimRight(s) ==
    IF s # <<>> /\ s[Len(s)] \in WS THEN TrimRight(SubSeq(s, 1, Len(s) - 1)) ELSE s

\* strings.TrimSpace
TrimSpace(s) == TrimRight(TrimLeft(s))

\* strings.TrimPrefix(s, "/")
TrimPrefixSlash(s) == IF s # <<>> /\ Head(s) = "/" THEN Tail(s) ELSE s

\* strings.HasSuffix(s, "\n")
HasSuffixNL(s) == s # <<>> /\ s[Len(s)] = "\n"

\* ------------------------------------------------------- character classes
Uppers == <<"A", "B", "C", "D", "E", "F", "G", "H", "I", "J", "K", "L", "M",
            "N", "O", "P", "Q", "R", "S", "T", "U", "V", "W", "X", "Y", "Z">>
Lowers == <<"a", "b", "c", "d", "e", "f", "g", "h", "i", "j", "k", "l", "m",
            "n", "o", "p", "q", "r", "s", "t", "u", "v", "w", "x", "y", "z">>
Digits == {"0", "1", "2", "3", "4", "5", "6", "7", "8", "9"}
Range(f) == {f[x] : x \in DOMAIN f}
Letters == Range(Uppers) \cup Range(Lowers)

\* (?i): the lower-case form of a character.
Lower(c) ==
    IF c \in Range(Uppers)
    THEN Lowers[CHOOSE k \in DOMAIN Uppers : Uppers[k] = c]
    ELSE c

\* \w and \s of Go's regexp (ASCII).
IsWord(c) == c \in Letters \cup Digits \cup {"_"}
Spaces == {" ", "\t", "\n", "\r", "\f"}

\* The byte 0x1b.
ESC == "ESC"
\* [0-?], [ -/] and [@-~] (without the double quote, the backslash and the backquote, which
\* no modelled line holds)
AnsiParams == Digits \cup {":", ";", "<", "=", ">", "?"}
AnsiInter == {" ", "!", "#", "$", "%", "&", "'", "(", ")", "*", "+",
              ",", "-", ".", "/"}
AnsiFinal == Letters \cup {"@", "[", "]", "^", "_", "{", "|", "}", "~"}

\* The first position >= i of s whose character is not in class (Len(s)+1 if none).
RECURSIVE SkipClass(_, _, _)
SkipClass(s, i, class) ==
    IF i <= Len(s) /\ s[i] \in class THEN SkipClass(s, i + 1, class) ELSE i

\* reANSIEsc = \x1b\[[0-?]*[ -/]*[@-~] matched at position i: the position
\* after the match, or 0 when it does not match there. The three classes are
\* disjoint, so the greedy match is the only one.
AnsiEnd(s, i) ==
    IF i + 1 <= Len(s) /\ s[i] = ESC /\ s[i + 1] = "["
    THEN LET e == SkipClass(s, SkipClass(s, i + 2, AnsiParams), AnsiInter)
         IN  IF e <= Len(s) /\ s[e] \in AnsiFinal THEN e + 1 ELSE 0
    ELSE 0

\* func stripANSI: reANSIEsc.ReplaceAllString(s, "")
RECURSIVE StripFrom(_, _)
StripFrom(s, i) ==
    IF i > Len(s) THEN <<>>
    ELSE IF AnsiEnd(s, i) # 0 THEN StripFrom(s, AnsiEnd(s, i))
    ELSE <<s[i]>> \o StripFrom(s, i + 1)

stripANSI(s) == StripFrom(s, 1)

\* ------------------------------------------------------- progress patterns
\* lit matches s at position i, ignoring case.
LitAt(s, i, lit) ==
    /\ i >= 1
    /\ i + Len(lit) - 1 <= Len(s)
    /\ \A k \in 1 .. Len(lit) : Lower(s[i + k - 1]) = lit[k]

\* \b between positions i-1 and i.
WordBoundary(s, i) ==
    LET before == i - 1 >= 1 /\ i - 1 <= Len(s) /\ IsWord(s[i - 1])
        after == i >= 1 /\ i <= Len(s) /\ IsWord(s[i])
    IN  before # after

\* [0-9]+(?:\.[0-9]+)? at position i, greedy: the position after it, 0 if none.
NumberEnd(s, i) ==
    IF i <= Len(s) /\ s[i] \in Digits
    THEN LET e == SkipClass(s, i, Digits)
         IN  IF e + 1 <= Len(s) /\ s[e] = "." /\ s[e + 1] \in Digits
             THEN SkipClass(s, e + 1, Digits)
             ELSE e
    ELSE 0

\* reOKSize = (?i)\bOK\s*size:\s*([0-9][0-9,]*)(?:\b|$) matched at position i:
\* <<first, last>> of the captured group, <<0, 0>> when it does not match there.
\* The group is greedy and gives characters back until \b or $ follows it.
OKSizeAt(s, i) ==
    IF WordBoundary(s, i) /\ LitAt(s, i, <<"o", "k">>)
    THEN LET a == SkipClass(s, i + 2, Spaces)
         IN  IF LitAt(s, a, <<"s", "i", "z", "e", ":">>)
             THEN LET b == SkipClass(s, a + 5, Spaces)
                  IN  IF b <= Len(s) /\ s[b] \in Digits
                      THEN LET most == SkipClass(s, b + 1, Digits \cup {","})
                               ends == {e \in b + 1 .. most :
                                          e = Len(s) + 1 \/ WordBoundary(s, e)}
                           IN  IF ends = {} THEN <<0, 0>>
                               ELSE <<b, (CHOOSE e \in ends :
                                            \A f \in ends : f <= e) - 1>>
                      ELSE <<0, 0>>
             ELSE <<0, 0>>
    ELSE <<0, 0>>

\* reProgress = (?i)\bProgress:\s*([0-9]+(?:\.[0-9]+)?)\s*% matched at i:
\* <<first, last>> of the number, <<0, 0>> when it does not match there. A
\* shorter number is followed by a digit or by ".", never by \s*%, so the
\* greedy number is the only candidate.
ProgressAt(s, i) ==
    IF WordBoundary(s, i)
       /\ LitAt(s, i, <<"p", "r", "o", "g", "r", "e", "s", "s", ":">>)
    THEN LET b == SkipClass(s, i + 9, Spaces)
             e == NumberEnd(s, b)
             q == SkipClass(s, e, Spaces)
         IN  IF e # 0 /\ q <= Len(s) /\ s[q] = "%" THEN <<b, e - 1>>
             ELSE <<0, 0>>
    ELSE <<0, 0>>

\* reSpeedUnit = (?i)\bSpeed:\s*([0-9]+(?:\.[0-9]+)?)\s*([kmgtp]?)(?:i)?b/s
\* matched at i: <<first, last, unit>> with unit the position of the prefix
\* letter (0 when there is none), <<0, 0, 0>> when it does not match there.
SpeedAt(s, i) ==
    IF WordBoundary(s, i) /\ LitAt(s, i, <<"s", "p", "e", "e", "d", ":">>)
    THEN LET b == SkipClass(s, i + 6, Spaces)
             e == NumberEnd(s, b)
             u == SkipClass(s, e, Spaces)
             hasUnit == u <= Len(s) /\ Lower(s[u]) \in {"k", "m", "g", "t", "p"}
             v == IF hasUnit THEN u + 1 ELSE u
             w == IF LitAt(s, v, <<"i">>) THEN v + 1 ELSE v
         IN  IF e # 0 /\ LitAt(s, w, <<"b", "/", "s">>)
             THEN <<b, e - 1, IF hasUnit THEN u ELSE 0>>
             ELSE <<0, 0, 0>>
    ELSE <<0, 0, 0>>

\* The leftmost position of a set of match positions (FindStringSubmatch
\* returns the leftmost match), 0 if there is none.
FirstMatch(hits) ==
    IF hits = {} THEN 0 ELSE CHOOSE i \in hits : \A k \in hits : i <= k

\* strings.ReplaceAll(s, ",", "")
RECURSIVE RemoveCommas(_)
RemoveCommas(s) ==
    IF s = <<>> THEN <<>>
    ELSE IF Head(s) = "," THEN RemoveCommas(Tail(s))
    ELSE <<Head(s)>> \o RemoveCommas(Tail(s))

RECURSIVE StripZeros(_)
StripZeros(s) == IF s # <<>> /\ Head(s) = "0" THEN StripZeros(Tail(s)) ELSE s

DigitValue(c) == CHOOSE v \in 0 .. 9 : <<"0", "1", "2", "3", "4", "5", "6", "7", "8", "9">>[v + 1] = c

\* math.MaxInt64 in decimal.
MaxInt64Text == <<"9", "2", "2", "3", "3", "7", "2", "0", "3", "6", "8", "5",
                  "4", "7", "7", "5", "8", "0", "7">>

\* a <= b for two digit strings of the same length.
RECURSIVE DigitsLeq(_, _)
DigitsLeq(a, b) ==
    IF a = <<>> THEN TRUE
    ELSE IF Head(a) # Head(b) THEN DigitValue(Head(a)) < DigitValue(Head(b))
    ELSE DigitsLeq(Tail(a), Tail(b))

\* func parseCommaInt64, its ok result: strconv.ParseInt fails on the empty
\* string, on a character that is no digit and on a value above math.MaxInt64.
parseCommaInt64Ok(s) ==
    LET t == RemoveCommas(s)
        d == StripZeros(t)
    IN  /\ t # <<>>
        /\ \A i \in 1 .. Len(t) : t[i] \in Digits
        /\ \/ Len(d) < Len(MaxInt64Text)
           \/ Len(d) = Len(MaxInt64Text) /\ DigitsLeq(d, MaxInt64Text)

\* The number a text of decimal digits stands for (texts short enough for the
\* value to stay below 2^31).
RECURSIVE TextValue(_)
TextValue(t) ==
    IF t = <<>> THEN 0
    ELSE TextValue(SubSeq(t, 1, Len(t) - 1)) * 10 + DigitValue(t[Len(t)])

\* func parseCommaInt64, its value when ok.
parseCommaInt64(s) == TextValue(RemoveCommas(s))

\* A float64 the code parses from decimal text or derives from one by a power
\* of 1024: m * 2^p * 5^q with m a multiple of neither 2 nor 5, and zero with
\* m = 0. Every such number is written in one way only.
RECURSIVE Scaled(_, _, _)
Scaled(m, p, q) ==
    IF m = 0 THEN [m |-> 0, p |-> 0, q |-> 0]
    ELSE IF m % 2 = 0 THEN Scaled(m \div 2, p + 1, q)
    ELSE IF m % 5 = 0 THEN Scaled(m \div 5, p, q + 1)
    ELSE [m |-> m, p |-> p, q |-> q]

\* m / 10^e
Float(m, e) == Scaled(m, 0 - e, 0 - e)

\* A number below 2^31 as the fraction Numerator / Denominator.
Numerator(x) ==
    x.m * 2 ^ (IF x.p > 0 THEN x.p ELSE 0) * 5 ^ (IF x.q > 0 THEN x.q ELSE 0)
Denominator(x) ==
    2 ^ (IF x.p < 0 THEN 0 - x.p ELSE 0) * 5 ^ (IF x.q < 0 THEN 0 - x.q ELSE 0)

\* strconv.ParseFloat on digits with an optional fraction.
ParseFloat(t) ==
    LET dots == {i \in 1 .. Len(t) : t[i] = "."}
    IN  IF dots = {} THEN Float(TextValue(t), 0)
        ELSE LET d == CHOOSE i \in dots : TRUE
             IN  Float(TextValue(SubSeq(t, 1, d - 1) \o SubSeq(t, d + 1, Len(t))),
                       Len(t) - d)

\* speedToBps with the decimal prefixes: the value times 1000 to the power the
\* unit prefix names.
speedToBps_Decimal(value, unitPrefix) ==
    LET power == CASE Lower(unitPrefix) = "k" -> 1
                   [] Lower(unitPrefix) = "m" -> 2
                   [] Lower(unitPrefix) = "g" -> 3
                   [] Lower(unitPrefix) = "t" -> 4
                   [] Lower(unitPrefix) = "p" -> 5
                   [] OTHER -> 0
    IN  Scaled(value.m, value.p + 3 * power, value.q + 3 * power)

\* func speedToBps: the value times 1024 = 2^10 to the power the unit prefix
\* names.
speedToBps(value, unitPrefix) ==
    LET power == CASE Lower(unitPrefix) = "k" -> 1
                   [] Lower(unitPrefix) = "m" -> 2
                   [] Lower(unitPrefix) = "g" -> 3
                   [] Lower(unitPrefix) = "t" -> 4
                   [] Lower(unitPrefix) = "p" -> 5
                   [] OTHER -> 0
    IN  Scaled(value.m, value.p + 10 * power, value.q)

\* func parseProgressSegment from line 260 on, with clean the trimmed line
\* (after strings.TrimSpace no "\r" is left in front for line 259 to remove).
\* strconv.ParseFloat does not fail on the digits-and-point text the patterns
\* capture (no modelled line is long enough to overflow a float64).
parseClean(clean) ==
    LET d == FirstMatch({i \in 1 .. Len(clean) : OKSizeAt(clean, i)[1] # 0})
        g == IF d = 0 THEN <<0, 0>> ELSE OKSizeAt(clean, d)
        hasDone == d # 0 /\ parseCommaInt64Ok(SubSeq(clean, g[1], g[2]))
        q == FirstMatch({i \in 1 .. Len(clean) : ProgressAt(clean, i)[1] # 0})
        h == IF q = 0 THEN <<0, 0>> ELSE ProgressAt(clean, q)
        v == FirstMatch({i \in 1 .. Len(clean) : SpeedAt(clean, i)[1] # 0})
        w == IF v = 0 THEN <<0, 0, 0>> ELSE SpeedAt(clean, v)
    IN  [hasDone |-> hasDone,
         doneBytes |-> IF hasDone THEN parseCommaInt64(SubSeq(clean, g[1], g[2]))
                       ELSE 0,
         hasPercent |-> q # 0,
         percent |-> IF q # 0 THEN ParseFloat(SubSeq(clean, h[1], h[2]))
                     ELSE Float(0, 0),
         hasSpeed |-> v # 0,
         speedBps |-> IF v # 0
                      THEN speedToBps(ParseFloat(SubSeq(clean, w[1], w[2])),
                                      IF w[3] = 0 THEN "" ELSE clean[w[3]])
                      ELSE Float(0, 0)]

\* func parseProgressSegment: lines 257-259 give the trimmed line, which is
\* worked out once.
parseProgressSegment(seg) ==
    CHOOSE out \in {parseClean(clean) : clean \in {TrimSpace(stripANSI(seg))}} : TRUE

\* ------------------------------------------------------------- ring buffer
\* newRingBuffer(16 * 1024) in runOssutilWithProgress.
RingCap == 16384

\* AppendLine that keeps what it holds and drops the new line.
AppendLine_KeepsFirst(data, cap, line) ==
    IF data # <<>> \/ line = <<>> THEN data ELSE line \o <<"\n">>

\* AppendLine that evicts nothing when the new line fits the capacity.
AppendLine_NoEvict(data, cap, line) ==
    IF line = <<>> THEN data
    ELSE LET raw == IF HasSuffixNL(line) THEN line ELSE line \o <<"\n">>
         IN  IF Len(raw) >= cap
             THEN SubSeq(raw, Len(raw) - cap + 1, Len(raw))
             ELSE data \o raw

\* func (b *ringBuffer) AppendLine: b.data after the call.
AppendLine(data, cap, line) ==
    IF line = <<>> THEN data
    ELSE LET raw == IF HasSuffixNL(line) THEN line ELSE line \o <<"\n">>
         IN  IF Len(raw) >= cap
             THEN SubSeq(raw, Len(raw) - cap + 1, Len(raw))
             ELSE IF Len(data) + Len(raw) > cap
             THEN SubSeq(data, Len(data) + Len(raw) - cap + 1, Len(data)) \o raw
             ELSE data \o raw

\* func (b *ringBuffer) String
RingString(data) == TrimSpace(data)

\* The bytes AppendLine hands to the buffer for line: nothing for the empty
\* line, else the line with a newline at its end.
RawLine(line) ==
    IF line = <<>> THEN <<>>
    ELSE IF HasSuffixNL(line) THEN line ELSE line \o <<"\n">>

\* A Go string literal spelled out (the model never looks inside these).
OSSUTIL == <<"o", "s", "s", "u", "t", "i", "l">>

\* ------------------------------------------------------------ environment
\* Paths on the machine. BUNDLED is <exeDir>/bin/ossutil, found by os.Stat at
\* construction; BAD is a path a user may configure, where no file is or one
\* that may not be executed.
BUNDLED == <<"/", "o">>
BAD == <<"/", "b">>
\* What a racy read of the two-word string header may observe: neither the old
\* nor the new value.
TORN == <<"?">>

\* What the settings page may send as ossutilPath: blank (auto), or a path.
PathInputs == {<<" ">>, BAD}

\* What os.Stat says of the local paths Enqueue is given.
FileSize == 10
StatOf(p) ==
    CASE p = <<"f">> -> "file"
      [] p = <<"d">> -> "dir"
      [] p = <<"d", "/", "f">> -> "file"
      [] OTHER -> "ErrNotExist"

VARIABLES
    transferCtx,        \* OSSService.transferCtx: "nil" until App.startup
    transferSeq,        \* OSSService.transferSeq
    transferLimiter,    \* OSSService.transferLimiter: nil, or its active and max
    transferLimiterPtr, \* which limiter OSSService.transferLimiter points to: 0 is nil
    setMaxPending,      \* a SetMax has stored max and not yet called Broadcast
    jobs,               \* one runTransfer goroutine per enqueued job
    sink,               \* per job, the snapshots handed to runtime.EventsEmit
    ossutilPath,        \* OSSService.ossutilPath
    defaultOssutilPath, \* OSSService.defaultOssutilPath
    defaultStarts,      \* environment: exec of defaultOssutilPath starts
    settingsFile,       \* ~/.walioss/settings.json
    pathCall,           \* a settings call about to assign s.ossutilPath
    cmd,                \* one runOssutil call (TestConnection, ListBuckets, ...)
    ret,                \* what the last caller-facing call returned
    remembered,         \* history: a job's fallback was stored and no settings
                        \* call has assigned the stored path since
    fellBack,           \* history: a job has succeeded by falling back
    now,                \* time.Now().UnixMilli()
    releasePending,     \* a Release called by no job has unlocked l.mu and not
                        \* yet called Broadcast
    ringBuffer,         \* a ringBuffer on its own: cap, data, and all it was given
    splitter,           \* a splitOnCRLF call on its own: reader, pending, emitted
    parsed,             \* a parseProgressSegment call on its own: input, result
    pipeline            \* the goroutines of one runOssutilWithProgress call on
                        \* their own: process, pipes, readers, channels, loop

vars == <<transferCtx, transferSeq, transferLimiter, transferLimiterPtr,
          setMaxPending, jobs, sink,
          ossutilPath, defaultOssutilPath, defaultStarts, settingsFile, pathCall,
          cmd, ret, remembered, fellBack, now, releasePending, ringBuffer,
          splitter, parsed, pipeline>>

Jobs == 1 .. (IF MaxAdmitJobs > MaxJobs THEN MaxAdmitJobs ELSE MaxJobs)

\* ------------------------------------------------------------- data model
\* time.Time{}: lastEmit before the first emit.
ZeroTime == -1

\* type TransferUpdate with every field zero but status and message.
\* etaSeconds is an int64 written as its decimal text: it takes values no TLC
\* integer holds.
Snapshot(status, message) ==
    [id |-> <<>>, type |-> "", status |-> status, name |-> <<>>,
     bucket |-> <<>>, key |-> <<>>, localPath |-> <<>>, totalBytes |-> 0,
     doneBytes |-> 0, speedBytesPerSec |-> Float(0, 0),
     etaSeconds |-> <<"0">>, message |-> message,
     startedAtMs |-> 0, updatedAtMs |-> 0, finishedAtMs |-> 0]

\* A job that has not been enqueued yet.
NoJob ==
    [pc |-> "idle", kind |-> "none", update |-> Snapshot("none", <<>>),
     primary |-> <<>>, fallback |-> <<>>, starts |-> <<>>, proc |-> "none",
     nread |-> 0, sawDiag |-> FALSE, outputTail |-> <<>>, lastEmit |-> ZeroTime,
     doneBytes |-> 0, speedBps |-> Float(0, 0),
     lastDiag |-> <<>>, err |-> <<>>, afterFallback |-> FALSE,
     sawRemembered |-> FALSE, limiter |-> 0]

NoCall == [op |-> "none", value |-> <<>>, input |-> <<>>]
\* No ringBuffer constructed yet (cap 0), and no splitOnCRLF call made yet.
\* stream is the bytes the buffer was given so far, newline-terminated as
\* AppendLine terminates them; for the splitter it is what the reader holds.
NoRing == [cap |-> 0, data |-> <<>>, stream |-> <<>>]
NoSplit == [state |-> "none", stream |-> <<>>, rest |-> <<>>, pending |-> <<>>,
            out |-> <<>>, chunks |-> 0]
\* No parseProgressSegment call made yet.
NoParse == [called |-> FALSE, in |-> <<>>, seg |-> <<>>, out |-> <<>>]
\* No call followed yet: the process is to write toWrite lines per stream;
\* buf lines are in a pipe, whose read end cmd.Wait closes; a reader is at
\* its Read, at its send, or has returned (atEOF: on io.EOF); sent lines went
\* into the channel, consumed ones through the loop.
Streams == {"stdout", "stderr"}
NoPipeline ==
    [pc |-> "none", toWrite |-> [s \in Streams |-> 0], exited |-> FALSE,
     pipe |-> [s \in Streams |-> [buf |-> 0, closed |-> FALSE]],
     reader |-> [s \in Streams |-> [pc |-> "read", atEOF |-> FALSE]],
     segments |-> [len |-> 0, closed |-> FALSE],
     waitCh |-> 0, waited |-> FALSE, loop |-> "range",
     written |-> 0, sent |-> 0, consumed |-> 0]
IdleCmd == [pc |-> "idle", primary |-> <<>>, fallback |-> <<>>]

\* func NewOSSService: the discovered path is both the stored and the default
\* path; the limiter and the context are not set by the constructor.
Init ==
    /\ transferCtx = "nil"
    /\ transferSeq = 0
    /\ transferLimiter = [installed |-> FALSE, active |-> 0, max |-> 0]
    /\ transferLimiterPtr = 0
    /\ setMaxPending = FALSE
    /\ jobs = [j \in Jobs |-> NoJob]
    /\ sink = [j \in Jobs |-> <<>>]
    /\ \E found \in {<<OSSUTIL, TRUE>>, <<OSSUTIL, FALSE>>, <<BUNDLED, FALSE>>} :
         /\ defaultOssutilPath = found[1]
         /\ defaultStarts = found[2]
    /\ ossutilPath = defaultOssutilPath
    /\ settingsFile = [state |-> "missing", path |-> <<>>]
    /\ pathCall = NoCall
    /\ cmd = IdleCmd
    /\ ret = [err |-> "", id |-> <<>>]
    /\ remembered = FALSE
    /\ fellBack = FALSE
    /\ now = 0
    /\ releasePending = FALSE
    /\ ringBuffer = NoRing
    /\ splitter = NoSplit
    /\ parsed = NoParse
    /\ pipeline = NoPipeline

\* func (a *App) startup / func (s *OSSService) SetContext
Startup ==
    /\ transferCtx = "nil"
    /\ transferCtx' = "ctx"
    /\ UNCHANGED <<transferLimiterPtr, pipeline, parsed, ringBuffer, splitter, now, releasePending, transferSeq, transferLimiter, setMaxPending, jobs, sink,
                   ossutilPath, defaultOssutilPath, defaultStarts, settingsFile,
                   pathCall, cmd, ret, remembered, fellBack>>

\* func (s *OSSService) emitTransferUpdate: the sink after the call.
emitTransferUpdate(j, update) ==
    IF transferCtx = "nil" THEN sink
    ELSE [sink EXCEPT ![j] = Append(@, update)]

\* --------------------------------------------------------------- Enqueue
\* EnqueueUpload lines 137-151: the error returned, "" when the input is accepted.
UploadError(bucket, localPath) ==
    LET lp == TrimSpace(localPath)
    IN  CASE lp = <<>> -> "local path is empty"
          [] TrimSpace(bucket) = <<>> -> "bucket is empty"
          [] StatOf(lp) = "ErrNotExist" -> "stat local file failed"
          [] StatOf(lp) = "dir" -> "upload currently supports files only"
          [] OTHER -> ""

\* EnqueueDownload lines 179-189.
DownloadError(bucket, object, localPath) ==
    CASE TrimSpace(localPath) = <<>> -> "local path is empty"
      [] TrimSpace(bucket) = <<>> -> "bucket is empty"
      [] TrimPrefixSlash(TrimSpace(object)) = <<>> -> "object key is empty"
      [] OTHER -> ""

\* filepath.Base / path.Base on a slash-separated path.
RECURSIVE TrimSlashes(_)
TrimSlashes(p) ==
    IF p # <<>> /\ p[Len(p)] = "/" THEN TrimSlashes(SubSeq(p, 1, Len(p) - 1))
    ELSE p

Base(p) ==
    IF p = <<>> THEN <<".">>
    ELSE LET q == TrimSlashes(p)
             cuts == {i \in 1 .. Len(q) : q[i] = "/"}
             last == IF cuts = {} THEN 0
                     ELSE CHOOSE i \in cuts : \A k \in cuts : k <= i
         IN  IF q = <<>> THEN <<"/">> ELSE SubSeq(q, last + 1, Len(q))

\* EnqueueUpload lines 153-170: the update built from the arguments.
UploadUpdate(bucket, prefix, localPath) ==
    LET lp == TrimSpace(localPath)
        fileName == Base(lp)
        dir == TrimPrefixSlash(prefix)
        key == (IF dir # <<>> /\ dir[Len(dir)] # "/" THEN dir \o <<"/">>
                ELSE dir) \o fileName
    IN  [Snapshot("queued", <<>>) EXCEPT
           !.type = "upload", !.name = fileName, !.bucket = bucket, !.key = key,
           !.localPath = lp, !.totalBytes = FileSize]

\* EnqueueDownload without lines 192-194: the name is what path.Base returns.
DownloadUpdate_BaseOnly(bucket, object, localPath, totalBytes) ==
    LET obj == TrimPrefixSlash(TrimSpace(object))
    IN  [Snapshot("queued", <<>>) EXCEPT
           !.type = "download", !.name = Base(obj),
           !.bucket = bucket, !.key = obj, !.localPath = TrimSpace(localPath),
           !.totalBytes = totalBytes]

\* EnqueueDownload lines 191-206.
DownloadUpdate(bucket, object, localPath, totalBytes) ==
    LET obj == TrimPrefixSlash(TrimSpace(object))
        base == Base(obj)
    IN  [Snapshot("queued", <<>>) EXCEPT
           !.type = "download",
           !.name = IF base \in {<<".">>, <<"/">>, <<>>} THEN obj ELSE base,
           !.bucket = bucket, !.key = obj, !.localPath = TrimSpace(localPath),
           !.totalBytes = totalBytes]

\* An id made of the submission time alone.
TransferId_TimeOnly(ms, seq) == <<ms, 0>>

\* fmt.Sprintf("tr-%d-%d", ms, seq): the two numbers, which the text determines.
TransferId(ms, seq) == <<ms, seq>>

\* The id is allocated, the queued snapshot emitted and runTransfer launched.
Launch(update, id) ==
    LET queued == [update EXCEPT !.id = id, !.updatedAtMs = now]
    IN  /\ transferSeq + 1 \in Jobs
        /\ transferSeq' = transferSeq + 1
        /\ sink' = emitTransferUpdate(transferSeq + 1, queued)
        /\ jobs' = [jobs EXCEPT ![transferSeq + 1] =
                      [NoJob EXCEPT !.pc = "start", !.kind = update.type,
                                    !.update = queued]]
        /\ ret' = [err |-> "", id |-> id]

\* Enqueue that waits for a free slot before it returns.
Enqueue_WaitsForSlot(update, error) ==
    /\ error = "" /\ transferLimiter.installed
       => transferLimiter.active < transferLimiter.max
    /\ IF error # ""
       THEN /\ ret' = [err |-> error, id |-> <<>>]
            /\ UNCHANGED <<transferSeq, jobs, sink>>
       ELSE Launch(update, TransferId(now, transferSeq + 1))

\* Enqueue that allocates the id before it validates.
Enqueue_CountsFirst(update, error) ==
    IF error # ""
    THEN /\ ret' = [err |-> error, id |-> <<>>]
         /\ transferSeq' = IF transferSeq < MaxJobs THEN transferSeq + 1
                           ELSE transferSeq
         /\ UNCHANGED <<jobs, sink>>
    ELSE Launch(update, TransferId(now, transferSeq + 1))

\* The part both Enqueue operations share: return the error, or allocate the
\* id from the clock and the counter, emit the queued snapshot and launch
\* runTransfer.
Enqueue(update, error) ==
    IF error # ""
    THEN /\ ret' = [err |-> error, id |-> <<>>]
         /\ UNCHANGED <<transferSeq, jobs, sink>>
    ELSE Launch(update, TransferId(now, transferSeq + 1))

\* func (s *OSSService) EnqueueUpload
EnqueueUpload(bucket, prefix, localPath) ==
    /\ transferCtx # "nil"
    /\ Enqueue(UploadUpdate(bucket, prefix, localPath),
               UploadError(bucket, localPath))
    /\ UNCHANGED <<transferLimiterPtr, pipeline, parsed, ringBuffer, splitter, now, releasePending, transferCtx, transferLimiter, setMaxPending, ossutilPath,
                   defaultOssutilPath, defaultStarts, settingsFile, pathCall, cmd,
                   remembered, fellBack>>

\* func (s *OSSService) EnqueueDownload
EnqueueDownload(bucket, object, localPath, totalBytes) ==
    /\ transferCtx # "nil"
    /\ Enqueue(DownloadUpdate(bucket, object, localPath, totalBytes),
               DownloadError(bucket, object, localPath))
    /\ UNCHANGED <<transferLimiterPtr, pipeline, parsed, ringBuffer, splitter, now, releasePending, transferCtx, transferLimiter, setMaxPending, ossutilPath,
                   defaultOssutilPath, defaultStarts, settingsFile, pathCall, cmd,
                   remembered, fellBack>>

\* --------------------------------------------------------------- limiter
\* A constructor that takes max as it is given.
newTransferLimiter_NoClamp(max) ==
    [installed |-> TRUE, active |-> 0, max |-> max]

\* The limiter a call of newTransferLimiter allocates: limiters are numbered
\* as they are installed in the service, and 0 is nil.
NewLimiter == transferLimiterPtr + 1

\* func newTransferLimiter
newTransferLimiter(max) ==
    [installed |-> TRUE, active |-> 0, max |-> IF max < 1 THEN 1 ELSE max]

\* sync.Cond.Broadcast: every goroutine in cond.Wait goes back to its loop test.
Woken(js) ==
    [k \in Jobs |-> IF js[k].pc = "waiting" THEN [js[k] EXCEPT !.pc = "acquire"]
                    ELSE js[k]]

\* SetMax that also cuts the active count down to the new limit.
SetMaxTransferThreads_Evicts(max) ==
    /\ transferCtx # "nil"
    /\ ~setMaxPending
    /\ IF ~transferLimiter.installed
       THEN /\ transferLimiter' = newTransferLimiter(max)
            /\ transferLimiterPtr' = NewLimiter
            /\ UNCHANGED setMaxPending
       ELSE /\ transferLimiter' =
                 LET m == IF max < 1 THEN 1 ELSE max
                 IN  [transferLimiter EXCEPT !.max = m,
                                             !.active = IF @ > m THEN m ELSE @]
            /\ setMaxPending' = TRUE
            /\ UNCHANGED transferLimiterPtr
    /\ UNCHANGED <<pipeline, parsed, ringBuffer, splitter, now, releasePending, transferCtx, transferSeq, jobs, sink, ossutilPath,
                   defaultOssutilPath, defaultStarts, settingsFile, pathCall, cmd,
                   ret, remembered, fellBack>>

\* func (s *OSSService) setMaxTransferThreads with transferLimiter.SetMax, up to
\* l.mu.Unlock(): transferLimiterMu stays locked until the Broadcast is done.
SetMaxTransferThreads(max) ==
    /\ transferCtx # "nil"
    /\ ~setMaxPending
    /\ IF ~transferLimiter.installed
       THEN /\ transferLimiter' = newTransferLimiter(max)
            /\ transferLimiterPtr' = NewLimiter
            /\ UNCHANGED setMaxPending
       ELSE /\ transferLimiter' =
                 [transferLimiter EXCEPT !.max = IF max < 1 THEN 1 ELSE max]
            /\ setMaxPending' = TRUE
            /\ UNCHANGED transferLimiterPtr
    /\ UNCHANGED <<pipeline, parsed, ringBuffer, splitter, now, releasePending, transferCtx, transferSeq, jobs, sink, ossutilPath,
                   defaultOssutilPath, defaultStarts, settingsFile, pathCall, cmd,
                   ret, remembered, fellBack>>

\* func (s *OSSService) getMaxTransferThreads
getMaxTransferThreads ==
    IF ~transferLimiter.installed THEN 1 ELSE transferLimiter.max

\* SetMax with cond.Signal() in the place of Broadcast: one waiter wakes.
SetMaxBroadcast_Signal ==
    /\ setMaxPending
    /\ setMaxPending' = FALSE
    /\ IF \E k \in Jobs : jobs[k].pc = "waiting"
       THEN \E k \in Jobs : /\ jobs[k].pc = "waiting"
                            /\ jobs' = [jobs EXCEPT ![k].pc = "acquire"]
       ELSE UNCHANGED jobs
    /\ UNCHANGED <<transferLimiterPtr, pipeline, parsed, ringBuffer, splitter, now, releasePending, transferCtx, transferSeq, transferLimiter, sink, ossutilPath,
                   defaultOssutilPath, defaultStarts, settingsFile, pathCall, cmd,
                   ret, remembered, fellBack>>

\* transferLimiter.SetMax, l.cond.Broadcast(), and the deferred Unlock.
SetMaxBroadcast ==
    /\ setMaxPending
    /\ setMaxPending' = FALSE
    /\ jobs' = Woken(jobs)
    /\ UNCHANGED <<transferLimiterPtr, pipeline, parsed, ringBuffer, splitter, now, releasePending, transferCtx, transferSeq, transferLimiter, sink, ossutilPath,
                   defaultOssutilPath, defaultStarts, settingsFile, pathCall, cmd,
                   ret, remembered, fellBack>>

\* runTransfer without limiter.Acquire().
JobStart_NoAcquire(j) ==
    /\ jobs[j].pc = "start"
    /\ ~setMaxPending
    /\ jobs' = [jobs EXCEPT ![j].pc = "admitted"]
    /\ UNCHANGED <<transferLimiterPtr, pipeline, parsed, ringBuffer, splitter, now, releasePending, transferCtx, transferSeq, transferLimiter, setMaxPending, sink,
                   ossutilPath, defaultOssutilPath, defaultStarts, settingsFile,
                   pathCall, cmd, ret, remembered, fellBack>>

\* runTransfer lines 362-364: read s.transferLimiter under RLock.
JobStart(j) ==
    /\ jobs[j].pc = "start"
    /\ ~setMaxPending
    /\ jobs' = [jobs EXCEPT ![j].limiter = transferLimiterPtr,
                            ![j].pc = IF transferLimiter.installed
                                      THEN "acquire" ELSE "install"]
    /\ UNCHANGED <<transferLimiterPtr, pipeline, parsed, ringBuffer, splitter, now, releasePending, transferCtx, transferSeq, transferLimiter, setMaxPending, sink,
                   ossutilPath, defaultOssutilPath, defaultStarts, settingsFile,
                   pathCall, cmd, ret, remembered, fellBack>>

\* runTransfer without the test of line 368: the limiter it has made is
\* installed whether or not one is there.
JobInstall_Overwrites(j) ==
    /\ jobs[j].pc = "install"
    /\ ~setMaxPending
    /\ transferLimiter' = newTransferLimiter(1)
    /\ transferLimiterPtr' = NewLimiter
    /\ jobs' = [jobs EXCEPT ![j].limiter = NewLimiter, ![j].pc = "acquire"]
    /\ UNCHANGED <<pipeline, parsed, ringBuffer, splitter, now, releasePending, transferCtx, transferSeq, setMaxPending, sink, ossutilPath,
                   defaultOssutilPath, defaultStarts, settingsFile, pathCall, cmd,
                   ret, remembered, fellBack>>

\* runTransfer lines 365-374: install newTransferLimiter(1) unless one is
\* there, and go on with the installed one.
JobInstall(j) ==
    /\ jobs[j].pc = "install"
    /\ ~setMaxPending
    /\ transferLimiter' = IF transferLimiter.installed THEN transferLimiter
                          ELSE newTransferLimiter(1)
    /\ transferLimiterPtr' = IF transferLimiter.installed THEN transferLimiterPtr
                             ELSE NewLimiter
    /\ jobs' = [jobs EXCEPT ![j].limiter = transferLimiterPtr', ![j].pc = "acquire"]
    /\ UNCHANGED <<pipeline, parsed, ringBuffer, splitter, now, releasePending, transferCtx, transferSeq, setMaxPending, sink, ossutilPath,
                   defaultOssutilPath, defaultStarts, settingsFile, pathCall, cmd,
                   ret, remembered, fellBack>>

\* Acquire without its loop: the slot is taken whatever active is.
Acquire_NoTest(j) ==
    /\ jobs[j].pc = "acquire"
    /\ transferLimiter' = [transferLimiter EXCEPT !.active = @ + 1]
    /\ jobs' = [jobs EXCEPT ![j].pc = "admitted"]
    /\ UNCHANGED <<transferLimiterPtr, pipeline, parsed, ringBuffer, splitter, now, releasePending, transferCtx, transferSeq, setMaxPending, sink, ossutilPath,
                   defaultOssutilPath, defaultStarts, settingsFile, pathCall, cmd,
                   ret, remembered, fellBack>>

\* func (l *transferLimiter) Acquire: one pass of the loop under l.mu, which
\* ends in cond.Wait or in l.active++.
Acquire(j) ==
    /\ jobs[j].pc = "acquire"
    /\ IF transferLimiter.active >= transferLimiter.max
       THEN /\ jobs' = [jobs EXCEPT ![j].pc = "waiting"]
            /\ UNCHANGED transferLimiter
       ELSE /\ transferLimiter' = [transferLimiter EXCEPT !.active = @ + 1]
            /\ jobs' = [jobs EXCEPT ![j].pc = "admitted"]
    /\ UNCHANGED <<transferLimiterPtr, pipeline, parsed, ringBuffer, splitter, now, releasePending, transferCtx, transferSeq, setMaxPending, sink, ossutilPath,
                   defaultOssutilPath, defaultStarts, settingsFile, pathCall, cmd,
                   ret, remembered, fellBack>>

\* func (l *transferLimiter) Release, up to l.mu.Unlock().
Release(j) ==
    /\ jobs[j].pc = "release"
    /\ transferLimiter' = [transferLimiter EXCEPT !.active =
                             IF @ > 0 THEN @ - 1 ELSE @]
    /\ jobs' = [jobs EXCEPT ![j].pc = "broadcast"]
    /\ UNCHANGED <<transferLimiterPtr, pipeline, parsed, ringBuffer, splitter, now, releasePending, transferCtx, transferSeq, setMaxPending, sink, ossutilPath,
                   defaultOssutilPath, defaultStarts, settingsFile, pathCall, cmd,
                   ret, remembered, fellBack>>

\* Release with cond.Signal() in the place of Broadcast: one waiter wakes.
ReleaseBroadcast_Signal(j) ==
    /\ jobs[j].pc = "broadcast"
    /\ IF \E k \in Jobs : jobs[k].pc = "waiting"
       THEN \E k \in Jobs :
               /\ jobs[k].pc = "waiting"
               /\ jobs' = [jobs EXCEPT ![k].pc = "acquire",
                                       ![j] = [NoJob EXCEPT !.pc = "done"]]
       ELSE jobs' = [jobs EXCEPT ![j] = [NoJob EXCEPT !.pc = "done"]]
    /\ UNCHANGED <<transferLimiterPtr, pipeline, parsed, ringBuffer, splitter, now, releasePending, transferCtx, transferSeq, transferLimiter, setMaxPending, sink,
                   ossutilPath, defaultOssutilPath, defaultStarts, settingsFile,
                   pathCall, cmd, ret, remembered, fellBack>>

\* Release without l.cond.Broadcast(): nobody is woken.
ReleaseBroadcast_Silent(j) ==
    /\ jobs[j].pc = "broadcast"
    /\ jobs' = [jobs EXCEPT ![j] = [NoJob EXCEPT !.pc = "done"]]
    /\ UNCHANGED <<transferLimiterPtr, pipeline, parsed, ringBuffer, splitter, now, releasePending, transferCtx, transferSeq, transferLimiter, setMaxPending, sink,
                   ossutilPath, defaultOssutilPath, defaultStarts, settingsFile,
                   pathCall, cmd, ret, remembered, fellBack>>

\* func (l *transferLimiter) Release, l.cond.Broadcast(); runTransfer returns
\* and its locals are gone.
ReleaseBroadcast(j) ==
    /\ jobs[j].pc = "broadcast"
    /\ jobs' = [Woken(jobs) EXCEPT ![j] = [NoJob EXCEPT !.pc = "done"]]
    /\ UNCHANGED <<transferLimiterPtr, pipeline, parsed, ringBuffer, splitter, now, releasePending, transferCtx, transferSeq, transferLimiter, setMaxPending, sink,
                   ossutilPath, defaultOssutilPath, defaultStarts, settingsFile,
                   pathCall, cmd, ret, remembered, fellBack>>

\* func (l *transferLimiter) Release called on the installed limiter by a
\* caller that holds no slot, up to l.mu.Unlock().
ReleaseCall ==
    /\ transferLimiter.installed
    /\ ~releasePending
    /\ transferLimiter' = [transferLimiter EXCEPT !.active =
                             IF @ > 0 THEN @ - 1 ELSE @]
    /\ releasePending' = TRUE
    /\ UNCHANGED <<transferLimiterPtr, pipeline, parsed, ringBuffer, splitter, now, transferCtx, transferSeq, setMaxPending, jobs, sink,
                   ossutilPath, defaultOssutilPath, defaultStarts, settingsFile,
                   pathCall, cmd, ret, remembered, fellBack>>

\* ... and its l.cond.Broadcast().
ReleaseCallBroadcast ==
    /\ releasePending
    /\ releasePending' = FALSE
    /\ jobs' = Woken(jobs)
    /\ UNCHANGED <<transferLimiterPtr, pipeline, parsed, ringBuffer, splitter, now, transferCtx, transferSeq, transferLimiter, setMaxPending,
                   sink, ossutilPath, defaultOssutilPath, defaultStarts,
                   settingsFile, pathCall, cmd, ret, remembered, fellBack>>

\* ------------------------------------------------------- the stored path
\* s.ossutilPath is read and assigned without a lock. The values being
\* assigned by calls that have reached their assignment and not completed it:
PathCallWrites == IF pathCall.op # "none" THEN {pathCall.value} ELSE {}
CmdWrites == IF cmd.pc = "store" THEN {cmd.fallback} ELSE {}
JobWrites(js) == {jobs[k].fallback : k \in {k \in js : jobs[k].pc = "store"}}
WritesInFlight == PathCallWrites \cup CmdWrites \cup JobWrites(Jobs)

\* What a read of s.ossutilPath may return: the stored value, or, racing with
\* the assignment of another text, a torn string header (the pointer of one
\* string with the length of the other). A read that sees all of the new
\* value is a read after the assignment.
ReadOssutilPath ==
    IF WritesInFlight \ {ossutilPath} = {} THEN {ossutilPath}
    ELSE {ossutilPath, TORN}

\* What an assignment of v leaves in s.ossutilPath when others is the set of
\* values being assigned by other calls at the same time.
WriteOssutilPath(v, others) == IF others \ {v} = {} THEN {v} ELSE {v, TORN}

\* exec.Cmd.Start of a binary: the possible results on this machine.
StartResults(binary) ==
    CASE binary = defaultOssutilPath ->
            IF defaultStarts THEN {"ok"}
            ELSE IF binary = OSSUTIL THEN {"ErrNotFound"} ELSE {"ErrPermission"}
      [] binary = BAD -> {"ErrNotExist", "ErrPermission"}
      [] binary = TORN -> {"ok", "ErrNotExist", "ErrExecFormat"}
      [] OTHER -> {"ErrNotFound"}

\* func ossutilStartFailed
ossutilStartFailed(err) == err \in {"ErrNotFound", "ErrNotExist", "ErrPermission"}

\* runOssutilWithProgress lines 460-467 and runOssutil lines 132-140.
ResolvePrimary(stored, fallback) ==
    IF TrimSpace(stored) # <<>> THEN TrimSpace(stored)
    ELSE IF fallback # <<>> THEN fallback
    ELSE OSSUTIL

\* The assignment in SetOssutilPath, GetSettings and SaveSettings: empty means auto.
AppliedPath(path) ==
    IF TrimSpace(path) = <<>> THEN defaultOssutilPath ELSE path

\* func (s *OSSService) SetOssutilPath, up to its assignment.
SetOssutilPath(path) ==
    /\ transferCtx # "nil"
    /\ pathCall.op = "none"
    /\ pathCall' = [op |-> "SetOssutilPath", value |-> AppliedPath(path),
                    input |-> path]
    /\ remembered' = FALSE
    /\ UNCHANGED <<transferLimiterPtr, pipeline, parsed, ringBuffer, splitter, now, releasePending, transferCtx, transferSeq, transferLimiter, setMaxPending, jobs,
                   sink, ossutilPath, defaultOssutilPath, defaultStarts,
                   settingsFile, cmd, ret, fellBack>>

\* func (s *OSSService) GetSettings, up to its assignment; a missing file
\* returns the defaults and assigns nothing.
GetSettings ==
    /\ transferCtx # "nil"
    /\ pathCall.op = "none"
    /\ IF settingsFile.state = "missing"
       THEN UNCHANGED <<pathCall, remembered>>
       ELSE /\ pathCall' = [op |-> "GetSettings",
                            value |-> AppliedPath(settingsFile.path),
                            input |-> settingsFile.path]
            /\ remembered' = FALSE
    /\ UNCHANGED <<transferLimiterPtr, pipeline, parsed, ringBuffer, splitter, now, releasePending, transferCtx, transferSeq, transferLimiter, setMaxPending, jobs,
                   sink, ossutilPath, defaultOssutilPath, defaultStarts,
                   settingsFile, cmd, ret, fellBack>>

\* func (s *OSSService) SaveSettings, up to its assignment.
SaveSettings(path) ==
    /\ transferCtx # "nil"
    /\ pathCall.op = "none"
    /\ pathCall' = [op |-> "SaveSettings", value |-> AppliedPath(path),
                    input |-> path]
    /\ remembered' = FALSE
    /\ UNCHANGED <<transferLimiterPtr, pipeline, parsed, ringBuffer, splitter, now, releasePending, transferCtx, transferSeq, transferLimiter, setMaxPending, jobs,
                   sink, ossutilPath, defaultOssutilPath, defaultStarts,
                   settingsFile, cmd, ret, fellBack>>

\* The assignment of s.ossutilPath in the three settings calls, and what
\* follows it: SaveSettings writes settings.json (os.WriteFile may fail).
PathCallAssign ==
    /\ pathCall.op # "none"
    /\ ossutilPath' \in WriteOssutilPath(pathCall.value,
                                         CmdWrites \cup JobWrites(Jobs))
    /\ settingsFile' \in
         IF pathCall.op = "SaveSettings"
         THEN {settingsFile, [state |-> "ok", path |-> pathCall.input]}
         ELSE {settingsFile}
    /\ pathCall' = NoCall
    /\ remembered' = FALSE
    /\ UNCHANGED <<transferLimiterPtr, pipeline, parsed, ringBuffer, splitter, now, releasePending, transferCtx, transferSeq, transferLimiter, setMaxPending, jobs,
                   sink, defaultOssutilPath, defaultStarts, cmd, ret, fellBack>>

\* func (s *OSSService) runOssutil lines 132-140: read the two paths.
CmdResolve ==
    /\ transferCtx # "nil"
    /\ cmd.pc = "idle"
    /\ \E stored \in ReadOssutilPath :
         cmd' = [pc |-> "primary",
                 primary |-> ResolvePrimary(stored, TrimSpace(defaultOssutilPath)),
                 fallback |-> TrimSpace(defaultOssutilPath)]
    /\ UNCHANGED <<transferLimiterPtr, pipeline, parsed, ringBuffer, splitter, now, releasePending, transferCtx, transferSeq, transferLimiter, setMaxPending, jobs,
                   sink, ossutilPath, defaultOssutilPath, defaultStarts,
                   settingsFile, pathCall, ret, remembered, fellBack>>

\* cmd.CombinedOutput: a binary that starts may still exit non-zero.
RunResults(binary) ==
    StartResults(binary)
    \cup (IF "ok" \in StartResults(binary) THEN {"ExitError"} ELSE {})

\* runOssutil lines 142-146: run the primary; return unless it could not start
\* and a distinct fallback is known.
CmdRunPrimary ==
    /\ cmd.pc = "primary"
    /\ \E err \in RunResults(cmd.primary) :
         cmd' = IF \/ err = "ok"
                   \/ ~ossutilStartFailed(err)
                   \/ cmd.fallback = <<>>
                   \/ cmd.fallback = cmd.primary
                THEN IdleCmd
                ELSE [cmd EXCEPT !.pc = "fallback"]
    /\ UNCHANGED <<transferLimiterPtr, pipeline, parsed, ringBuffer, splitter, now, releasePending, transferCtx, transferSeq, transferLimiter, setMaxPending, jobs,
                   sink, ossutilPath, defaultOssutilPath, defaultStarts,
                   settingsFile, pathCall, ret, remembered, fellBack>>

\* runOssutil lines 149-157: run the fallback.
CmdRunFallback ==
    /\ cmd.pc = "fallback"
    /\ \E err \in RunResults(cmd.fallback) :
         cmd' = IF err = "ok" \/ ~ossutilStartFailed(err)
                THEN [cmd EXCEPT !.pc = "store"]
                ELSE IdleCmd
    /\ UNCHANGED <<transferLimiterPtr, pipeline, parsed, ringBuffer, splitter, now, releasePending, transferCtx, transferSeq, transferLimiter, setMaxPending, jobs,
                   sink, ossutilPath, defaultOssutilPath, defaultStarts,
                   settingsFile, pathCall, ret, remembered, fellBack>>

\* runOssutil line 153: s.ossutilPath = fallback.
CmdStore ==
    /\ cmd.pc = "store"
    /\ LET others == PathCallWrites \cup JobWrites(Jobs)
       IN  /\ ossutilPath' \in WriteOssutilPath(cmd.fallback, others)
           /\ remembered' = (remembered /\ ossutilPath' = cmd.fallback)
    /\ cmd' = IdleCmd
    /\ UNCHANGED <<transferLimiterPtr, pipeline, parsed, ringBuffer, splitter, now, releasePending, transferCtx, transferSeq, transferLimiter, setMaxPending, jobs,
                   sink, defaultOssutilPath, defaultStarts, settingsFile, pathCall,
                   ret, fellBack>>

\* ------------------------------------------------------------ runTransfer
\* Lines the external process may print, as splitOnCRLF hands them over
\* (trimmed and not empty).
LineOKSize == <<"O", "K", " ", "s", "i", "z", "e", ":", " ", "5">>
LineProgress == <<"P", "r", "o", "g", "r", "e", "s", "s", ":", " ", "5", "0", "%">>
LineSpeed == <<"s", "p", "e", "e", "d", ":", " ", "1", "K", "B", "/", "s">>
LineError == <<ESC, "[", "3", "1", "m", "E", ESC, "[", "0", "m">>
LineReset == <<ESC, "[", "0", "m">>
LineSized == <<"s", "i", "z", "e", ":", "5">>
Lines == {LineOKSize, LineProgress, LineSpeed, LineError, LineReset, LineSized}

\* runTransfer without the emit of line 382.
BeginTransfer_Silent(j) ==
    /\ jobs[j].pc = "admitted"
    /\ jobs' = [jobs EXCEPT ![j].update.status = "in-progress",
                            ![j].update.startedAtMs = now,
                            ![j].update.updatedAtMs = now,
                            ![j].pc = "resolve"]
    /\ UNCHANGED <<transferLimiterPtr, pipeline, parsed, ringBuffer, splitter, now, releasePending, transferCtx, transferSeq, transferLimiter, setMaxPending, sink,
                   ossutilPath, defaultOssutilPath, defaultStarts, settingsFile,
                   pathCall, cmd, ret, remembered, fellBack>>

\* runTransfer with no default case in its switch: a job of any kind goes on
\* to runOssutilWithProgress.
BeginTransfer_NoDefault(j) ==
    /\ jobs[j].pc = "admitted"
    /\ LET running == [jobs[j].update EXCEPT !.status = "in-progress",
                                              !.startedAtMs = now,
                                              !.updatedAtMs = now]
       IN  /\ sink' = emitTransferUpdate(j, running)
           /\ jobs' = [jobs EXCEPT ![j].update = running, ![j].pc = "resolve"]
    /\ UNCHANGED <<transferLimiterPtr, pipeline, parsed, ringBuffer, splitter, now, releasePending, transferCtx, transferSeq, transferLimiter, setMaxPending,
                   ossutilPath, defaultOssutilPath, defaultStarts, settingsFile,
                   pathCall, cmd, ret, remembered, fellBack>>

\* runTransfer with limiter.Release() called at its end and not deferred: the
\* return of the default case leaves without it.
BeginTransfer_Unreleased(j) ==
    /\ jobs[j].pc = "admitted"
    /\ LET running == [jobs[j].update EXCEPT !.status = "in-progress",
                                              !.startedAtMs = now,
                                              !.updatedAtMs = now]
           failed == [running EXCEPT !.status = "error",
                                     !.message = <<"unknown transfer type">>,
                                     !.finishedAtMs = now,
                                     !.updatedAtMs = now]
       IN  IF jobs[j].kind \in {"download", "upload"}
           THEN /\ sink' = emitTransferUpdate(j, running)
                /\ jobs' = [jobs EXCEPT ![j].update = running, ![j].pc = "resolve"]
           ELSE /\ sink' = [emitTransferUpdate(j, running) EXCEPT ![j] =
                              IF transferCtx = "nil" THEN @ ELSE Append(@, failed)]
                /\ jobs' = [jobs EXCEPT ![j] = [NoJob EXCEPT !.pc = "done"]]
    /\ UNCHANGED <<transferLimiterPtr, pipeline, parsed, ringBuffer, splitter, now, releasePending, transferCtx, transferSeq, transferLimiter, setMaxPending,
                   ossutilPath, defaultOssutilPath, defaultStarts, settingsFile,
                   pathCall, cmd, ret, remembered, fellBack>>

\* runTransfer lines 379-423: the in-progress snapshot and the switch on the
\* kind. An unknown kind ends the job with an error snapshot.
BeginTransfer(j) ==
    /\ jobs[j].pc = "admitted"
    /\ LET running == [jobs[j].update EXCEPT !.status = "in-progress",
                                              !.startedAtMs = now,
                                              !.updatedAtMs = now]
           failed == [running EXCEPT !.status = "error",
                                     !.message = <<"unknown transfer type">>,
                                     !.finishedAtMs = now,
                                     !.updatedAtMs = now]
       IN  IF jobs[j].kind \in {"download", "upload"}
           THEN /\ sink' = emitTransferUpdate(j, running)
                /\ jobs' = [jobs EXCEPT ![j].update = running, ![j].pc = "resolve"]
           ELSE /\ sink' = [emitTransferUpdate(j, running) EXCEPT ![j] =
                              IF transferCtx = "nil" THEN @ ELSE Append(@, failed)]
                /\ jobs' = [jobs EXCEPT ![j].update = failed, ![j].pc = "release"]
    /\ UNCHANGED <<transferLimiterPtr, pipeline, parsed, ringBuffer, splitter, now, releasePending, transferCtx, transferSeq, transferLimiter, setMaxPending,
                   ossutilPath, defaultOssutilPath, defaultStarts, settingsFile,
                   pathCall, cmd, ret, remembered, fellBack>>

\* runOssutilWithProgress lines 460-467: read the two paths.
ResolveBinary(j) ==
    /\ jobs[j].pc = "resolve"
    /\ \E stored \in ReadOssutilPath :
         jobs' = [jobs EXCEPT
                    ![j].primary = ResolvePrimary(stored, TrimSpace(defaultOssutilPath)),
                    ![j].fallback = TrimSpace(defaultOssutilPath),
                    ![j].afterFallback = fellBack,
                    ![j].sawRemembered =
                        remembered /\ WritesInFlight \ {ossutilPath} = {},
                    ![j].pc = "primary"]
    /\ UNCHANGED <<transferLimiterPtr, pipeline, parsed, ringBuffer, splitter, now, releasePending, transferCtx, transferSeq, transferLimiter, setMaxPending, sink,
                   ossutilPath, defaultOssutilPath, defaultStarts, settingsFile,
                   pathCall, cmd, ret, remembered, fellBack>>

\* fmt.Errorf("failed to start ossutil: %w", err)
StartError(err) == <<"failed to start ossutil: ", err>>

\* runOssutilWithProgress lines 469-478: startCmd(primary), and where it leads.
StartPrimary(j) ==
    /\ jobs[j].pc = "primary"
    /\ \E err \in StartResults(jobs[j].primary) :
         jobs' = [jobs EXCEPT ![j] =
            LET tried == [@ EXCEPT !.starts =
                            Append(@, [binary |-> jobs[j].primary, err |-> err])]
            IN  IF err = "ok"
                THEN [tried EXCEPT !.proc = "running", !.pc = "loop"]
                ELSE IF /\ ossutilStartFailed(err)
                        /\ jobs[j].fallback # <<>>
                        /\ jobs[j].fallback # jobs[j].primary
                THEN [tried EXCEPT !.pc = "fallback"]
                ELSE [tried EXCEPT !.err = StartError(err), !.pc = "finalize"]]
    /\ UNCHANGED <<transferLimiterPtr, pipeline, parsed, ringBuffer, splitter, now, releasePending, transferCtx, transferSeq, transferLimiter, setMaxPending, sink,
                   ossutilPath, defaultOssutilPath, defaultStarts, settingsFile,
                   pathCall, cmd, ret, remembered, fellBack>>

\* runOssutilWithProgress lines 471-478: startCmd(fallback).
StartFallback(j) ==
    /\ jobs[j].pc = "fallback"
    /\ \E err \in StartResults(jobs[j].fallback) :
         jobs' = [jobs EXCEPT ![j] =
            LET tried == [@ EXCEPT !.starts =
                            Append(@, [binary |-> jobs[j].fallback, err |-> err])]
            IN  IF err = "ok"
                THEN [tried EXCEPT !.proc = "running", !.pc = "store"]
                ELSE [tried EXCEPT !.err = StartError(err), !.pc = "finalize"]]
    /\ UNCHANGED <<transferLimiterPtr, pipeline, parsed, ringBuffer, splitter, now, releasePending, transferCtx, transferSeq, transferLimiter, setMaxPending, sink,
                   ossutilPath, defaultOssutilPath, defaultStarts, settingsFile,
                   pathCall, cmd, ret, remembered, fellBack>>

\* The fallback branch without the assignment of line 473.
StoreFallback_Forgets(j) ==
    /\ jobs[j].pc = "store"
    /\ remembered' = (pathCall.op = "none")
    /\ jobs' = [jobs EXCEPT ![j].pc = "loop"]
    /\ UNCHANGED <<transferLimiterPtr, pipeline, parsed, ringBuffer, splitter, now, releasePending, transferCtx, transferSeq, transferLimiter, setMaxPending, sink,
                   ossutilPath, defaultOssutilPath, defaultStarts, settingsFile,
                   pathCall, cmd, ret, fellBack>>

\* runOssutilWithProgress line 473: s.ossutilPath = fallback.
StoreFallback(j) ==
    /\ jobs[j].pc = "store"
    /\ LET others == PathCallWrites \cup CmdWrites \cup JobWrites(Jobs \ {j})
       IN  /\ ossutilPath' \in WriteOssutilPath(jobs[j].fallback, others)
           /\ remembered' = (ossutilPath' = jobs[j].fallback /\ pathCall.op = "none")
    /\ jobs' = [jobs EXCEPT ![j].pc = "loop"]
    /\ UNCHANGED <<transferLimiterPtr, pipeline, parsed, ringBuffer, splitter, now, releasePending, transferCtx, transferSeq, transferLimiter, setMaxPending, sink,
                   defaultOssutilPath, defaultStarts, settingsFile, pathCall, cmd,
                   ret, fellBack>>

\* The external process exits (cmd.Wait returns nil or an *exec.ExitError).
ProcessExit(j, code) ==
    /\ jobs[j].proc = "running"
    /\ jobs' = [jobs EXCEPT ![j].proc = code]
    /\ UNCHANGED <<transferLimiterPtr, pipeline, parsed, ringBuffer, splitter, now, releasePending, transferCtx, transferSeq, transferLimiter, setMaxPending, sink,
                   ossutilPath, defaultOssutilPath, defaultStarts, settingsFile,
                   pathCall, cmd, ret, remembered, fellBack>>

\* The clock of time.Now() advances by d milliseconds.
Tick(d) ==
    /\ now + d <= MaxTime
    /\ now' = now + d
    /\ UNCHANGED <<transferLimiterPtr, pipeline, parsed, ringBuffer, splitter, releasePending, transferCtx, transferSeq, transferLimiter,
                   setMaxPending, jobs, sink, ossutilPath, defaultOssutilPath, defaultStarts,
                   settingsFile, pathCall, cmd, ret, remembered, fellBack>>

\* emitInterval := 250 * time.Millisecond
emitInterval == 250

\* math.MinInt64 in decimal.
MinInt64Text == <<"-", "9", "2", "2", "3", "3", "7", "2", "0", "3", "6", "8", "5",
                  "4", "7", "7", "5", "8", "0", "8">>

\* The decimal text of a natural number.
RECURSIVE NatText(_)
NatText(n) ==
    IF n < 10 THEN <<CHOOSE c \in Digits : DigitValue(c) = n>>
    ELSE NatText(n \div 10) \o NatText(n % 10)

\* The decimal text t times the digit c, from digit i down, with low the
\* digits of the product below digit i and carry what they carried.
RECURSIVE TextMulFrom(_, _, _, _, _)
TextMulFrom(t, i, c, carry, low) ==
    IF i = 0 THEN (IF carry = 0 THEN <<>> ELSE NatText(carry)) \o low
    ELSE TextMulFrom(t, i - 1, c, (DigitValue(t[i]) * c + carry) \div 10,
                     NatText((DigitValue(t[i]) * c + carry) % 10) \o low)

\* The whole part of the decimal text t over d, from digit i on, with q the
\* digits of the quotient and r the remainder of the digits before i.
RECURSIVE TextDivFrom(_, _, _, _, _)
TextDivFrom(t, i, d, q, r) ==
    IF i > Len(t) THEN q
    ELSE TextDivFrom(t, i + 1, d,
                     q \o NatText((r * 10 + DigitValue(t[i])) \div d),
                     (r * 10 + DigitValue(t[i])) % d)

\* t * c^k and the whole part of t / d^k.
RECURSIVE TextTimes(_, _, _)
TextTimes(t, c, k) ==
    IF k <= 0 THEN t
    ELSE CHOOSE r \in {TextTimes(u, c, k - 1) :
                         u \in {TextMulFrom(t, Len(t), c, 0, <<>>)}} : TRUE

RECURSIVE TextOver(_, _, _)
TextOver(t, d, k) ==
    IF k <= 0 THEN t
    ELSE CHOOSE r \in {TextOver(u, d, k - 1) :
                         u \in {TextDivFrom(t, 1, d, <<>>, 0)}} : TRUE

\* float64(n) / speed truncated to a whole number, in decimal: the negative
\* powers of speed multiply n, then m and the positive powers divide it.
QuotientText(n, speed) ==
    LET up == TextTimes(TextTimes(NatText(n), 2, 0 - speed.p), 5, 0 - speed.q)
        t == StripZeros(TextOver(TextOver(TextOver(up, speed.m, 1), 2, speed.p),
                                 5, speed.q))
    IN  IF t = <<>> THEN <<"0">> ELSE t

\* int64(f) for a float64 f >= 0 given by the decimal text of its whole part.
\* A value no int64 holds converts to an implementation-dependent int64: the
\* smallest one where the conversion instruction signals the overflow that
\* way, the largest one where it saturates.
ToInt64(t) ==
    IF \/ Len(t) < Len(MaxInt64Text)
       \/ Len(t) = Len(MaxInt64Text) /\ DigitsLeq(t, MaxInt64Text)
    THEN {t}
    ELSE {MinInt64Text, MaxInt64Text}

\* The closure emit, lines 498-502: the values update.EtaSeconds may take.
EtaSeconds(totalBytes, doneBytes, speedBps) ==
    IF totalBytes > 0 /\ speedBps.m > 0 /\ doneBytes >= 0
       /\ doneBytes <= totalBytes
    THEN ToInt64(QuotientText(totalBytes - doneBytes, speedBps))
    ELSE {<<"0">>}

\* The closure emit, line 490: the call returns without emitting.
Throttled(job, force) ==
    ~force /\ job.lastEmit # ZeroTime /\ now - job.lastEmit < emitInterval

\* An emit that rebuilds the snapshot from the progress fields and leaves out
\* the local path.
emit_DropsLocalPath(job, eta) ==
    [job EXCEPT !.lastEmit = now,
                !.update = [@ EXCEPT !.doneBytes = job.doneBytes,
                                     !.speedBytesPerSec = job.speedBps,
                                     !.etaSeconds = eta,
                                     !.updatedAtMs = now,
                                     !.localPath = <<>>]]

\* The closure emit, lines 493-505: the job after the call, with eta the
\* value of line 499.
emit(job, eta) ==
    [job EXCEPT !.lastEmit = now,
                !.update = [@ EXCEPT !.doneBytes = job.doneBytes,
                                     !.speedBytesPerSec = job.speedBps,
                                     !.etaSeconds = eta,
                                     !.updatedAtMs = now]]

\* ---------------------------------------------------------------- float64
\* A float64 above zero is mant * 2^exp with mant a sequence of Mantissa bits,
\* the first of them 1; zero has no bits. Bit sequences have their most
\* significant bit first.
Mantissa == 53
Float64Zero == [mant |-> <<>>, exp |-> 0]

RECURSIVE StripBits(_)
StripBits(b) == IF b # <<>> /\ Head(b) = 0 THEN StripBits(Tail(b)) ELSE b

\* The bits of a natural number, and the number a bit sequence stands for.
RECURSIVE NatBits(_)
NatBits(n) == IF n = 0 THEN <<>> ELSE NatBits(n \div 2) \o <<n % 2>>

RECURSIVE BitsValue(_)
BitsValue(b) ==
    IF b = <<>> THEN 0
    ELSE 2 * BitsValue(SubSeq(b, 1, Len(b) - 1)) + b[Len(b)]

\* b + 1
RECURSIVE IncBits(_)
IncBits(b) ==
    IF b = <<>> THEN <<1>>
    ELSE IF b[Len(b)] = 0 THEN SubSeq(b, 1, Len(b) - 1) \o <<1>>
    ELSE IncBits(SubSeq(b, 1, Len(b) - 1)) \o <<0>>

\* b divided by the natural number d, from bit i on, with q the quotient bits
\* and r the remainder of the bits before i: quotient bits and remainder.
RECURSIVE DivFrom(_, _, _, _, _)
DivFrom(b, i, d, q, r) ==
    IF i > Len(b) THEN [q |-> q, r |-> r]
    ELSE DivFrom(b, i + 1, d, Append(q, (2 * r + b[i]) \div d), (2 * r + b[i]) % d)

DivBits(b, d) == DivFrom(b, 1, d, <<>>, 0)

\* b * t for a natural number t, from bit i down, with low the bits of the
\* product below bit i and carry what they carried.
RECURSIVE MulFrom(_, _, _, _, _)
MulFrom(b, i, t, carry, low) ==
    IF i = 0 THEN NatBits(carry) \o low
    ELSE MulFrom(b, i - 1, t, (b[i] * t + carry) \div 2,
                 <<(b[i] * t + carry) % 2>> \o low)

MulBits(b, t) == MulFrom(b, Len(b), t, 0, <<>>)

\* The binary expansion of (a + r/d) * 2^s, continued until it has one bit
\* more than a mantissa holds.
RECURSIVE Extend(_, _, _, _)
Extend(a, r, d, s) ==
    IF Len(a) > Mantissa THEN [bits |-> a, r |-> r, s |-> s]
    ELSE Extend(IF a = <<>> /\ 2 * r < d THEN <<>> ELSE Append(a, (2 * r) \div d),
                (2 * r) % d, d, s - 1)

\* The bits x of Extend rounded to the nearest float64, ties to even.
RoundBits(x) ==
    LET m == SubSeq(x.bits, 1, Mantissa)
        sticky == x.r # 0 \/ \E i \in Mantissa + 2 .. Len(x.bits) : x.bits[i] = 1
        up == x.bits[Mantissa + 1] = 1 /\ (sticky \/ m[Mantissa] = 1)
        e == x.s + Len(x.bits) - Mantissa
    IN  IF ~up THEN [mant |-> m, exp |-> e]
        ELSE IF \A i \in 1 .. Mantissa : m[i] = 1
        THEN [mant |-> <<1>> \o [i \in 1 .. Mantissa - 1 |-> 0], exp |-> e + 1]
        ELSE [mant |-> IncBits(m), exp |-> e]

\* The float64 nearest to (a + r/d) * 2^s, with 0 <= r < d.
Round64(a, r, d, s) ==
    IF StripBits(a) = <<>> /\ r = 0 THEN Float64Zero
    ELSE RoundBits(Extend(StripBits(a), r, d, s))

\* strconv.ParseFloat(text, 64) for the decimal text of n / d, float64(n) for a
\* natural number n, and the float64 operations x / float64(d) and
\* x * float64(t).
Float64Of(n, d) == Round64(NatBits(n \div d), n % d, d, 0)
Float64Div(x, d) ==
    IF x.mant = <<>> THEN Float64Zero
    ELSE Round64(DivBits(x.mant, d).q, DivBits(x.mant, d).r, d, x.exp)
Float64Mul(x, t) ==
    IF x.mant = <<>> \/ t = 0 THEN Float64Zero
    ELSE Round64(MulBits(x.mant, t), 0, 1, x.exp)

\* int64(x) for a float64 x >= 0 below 2^31.
Int64Of(x) ==
    IF x.mant = <<>> \/ Mantissa + x.exp <= 0 THEN 0
    ELSE IF x.exp >= 0 THEN BitsValue(x.mant) * 2 ^ x.exp
    ELSE BitsValue(SubSeq(x.mant, 1, Mantissa + x.exp))

\* A percentage taken with no rounding: the whole part of
\* totalBytes * percent / 100.
PercentOf_Exact(totalBytes, percent) ==
    (totalBytes * Numerator(percent)) \div (100 * Denominator(percent))

\* int64(float64(update.TotalBytes) * (p.percent / 100.0)), with p.percent the
\* float64 strconv.ParseFloat returns for the text percent stands for.
PercentOf(totalBytes, percent) ==
    Int64Of(Float64Mul(Float64Div(Float64Of(Numerator(percent),
                                            Denominator(percent)), 100),
                       totalBytes))

\* The loop without the continue of line 546: a progress line goes on to
\* outputTail.AppendLine as well.
ReadLine_NoContinue(j, line) ==
    /\ jobs[j].pc = "loop"
    /\ \E p \in {parseProgressSegment(stripANSI(line))} :
       \E seg \in {TrimSpace(stripANSI(line))} :
       \E total \in {jobs[j].update.totalBytes} :
       \E read \in {[jobs[j] EXCEPT
                       !.nread = @ + 1,
                       !.doneBytes = IF p.hasDone THEN p.doneBytes
                                     ELSE IF p.hasPercent /\ total > 0
                                     THEN PercentOf(total, p.percent)
                                     ELSE @,
                       !.speedBps = IF p.hasSpeed THEN p.speedBps ELSE @,
                       !.outputTail = AppendLine(@, RingCap, seg)]} :
          IF p.hasDone \/ p.hasSpeed \/ p.hasPercent
          THEN IF Throttled(read, FALSE)
               THEN /\ jobs' = [jobs EXCEPT ![j] = read]
                    /\ UNCHANGED sink
               ELSE \E eta \in EtaSeconds(total, read.doneBytes, read.speedBps) :
                    \E emitted \in {emit(read, eta)} :
                       /\ jobs' = [jobs EXCEPT ![j] = emitted]
                       /\ sink' = emitTransferUpdate(j, emitted.update)
          ELSE /\ jobs' = [jobs EXCEPT
                             ![j].nread = @ + 1,
                             ![j].sawDiag = TRUE,
                             ![j].lastDiag = IF seg = <<>> THEN @ ELSE seg,
                             ![j].outputTail = AppendLine(@, RingCap, seg)]
               /\ UNCHANGED sink
    /\ UNCHANGED <<transferLimiterPtr, pipeline, parsed, ringBuffer, splitter, now, releasePending, transferCtx, transferSeq, transferLimiter,
                   setMaxPending, ossutilPath, defaultOssutilPath, defaultStarts,
                   settingsFile, pathCall, cmd, ret, remembered, fellBack>>

\* runOssutilWithProgress lines 529-551: one pass of the loop over the lines
\* of the two streams, with the closure emit(false) of lines 488-508.
ReadLine(j, line) ==
    /\ jobs[j].pc = "loop"
    /\ \E p \in {parseProgressSegment(stripANSI(line))} :
       \E seg \in {TrimSpace(stripANSI(line))} :
       \E total \in {jobs[j].update.totalBytes} :
       \E read \in {[jobs[j] EXCEPT
                       !.nread = @ + 1,
                       !.doneBytes = IF p.hasDone THEN p.doneBytes
                                     ELSE IF p.hasPercent /\ total > 0
                                     THEN PercentOf(total, p.percent)
                                     ELSE @,
                       !.speedBps = IF p.hasSpeed THEN p.speedBps ELSE @]} :
          IF p.hasDone \/ p.hasSpeed \/ p.hasPercent
          THEN IF Throttled(read, FALSE)
               THEN /\ jobs' = [jobs EXCEPT ![j] = read]
                    /\ UNCHANGED sink
               ELSE \E eta \in EtaSeconds(total, read.doneBytes, read.speedBps) :
                    \E emitted \in {emit(read, eta)} :
                       /\ jobs' = [jobs EXCEPT ![j] = emitted]
                       /\ sink' = emitTransferUpdate(j, emitted.update)
          ELSE /\ jobs' = [jobs EXCEPT
                             ![j].nread = @ + 1,
                             ![j].sawDiag = TRUE,
                             ![j].lastDiag = IF seg = <<>> THEN @ ELSE seg,
                             ![j].outputTail = AppendLine(@, RingCap, seg)]
               /\ UNCHANGED sink
    /\ UNCHANGED <<transferLimiterPtr, pipeline, parsed, ringBuffer, splitter, now, releasePending, transferCtx, transferSeq, transferLimiter,
                   setMaxPending, ossutilPath, defaultOssutilPath, defaultStarts,
                   settingsFile, pathCall, cmd, ret, remembered, fellBack>>

\* runOssutilWithProgress line 562: emit(true), and the return of nil.
EmitLast(j) ==
    \E eta \in EtaSeconds(jobs[j].update.totalBytes, jobs[j].doneBytes,
                          jobs[j].speedBps) :
    \E emitted \in {emit(jobs[j], eta)} :
       /\ jobs' = [jobs EXCEPT ![j] = [emitted EXCEPT !.pc = "finalize"]]
       /\ sink' = emitTransferUpdate(j, emitted.update)

\* The text of an *exec.ExitError.
ExitErrorText == <<"exit status 1">>

\* A loop end that takes a non-zero exit for a reason to try the fallback.
LoopReturn_Retries(j) ==
    /\ jobs[j].pc = "loop"
    /\ jobs[j].proc \in {"exit0", "exit1"}
    /\ IF jobs[j].proc = "exit1"
       THEN /\ jobs' = [jobs EXCEPT ![j].pc =
                          IF Len(jobs[j].starts) = 1 THEN "fallback" ELSE "finalize",
                                     ![j].err = ExitErrorText]
            /\ UNCHANGED sink
       ELSE EmitLast(j)
    /\ UNCHANGED <<transferLimiterPtr, pipeline, parsed, ringBuffer, splitter, now, releasePending, transferCtx, transferSeq, transferLimiter, setMaxPending,
                   ossutilPath, defaultOssutilPath, defaultStarts, settingsFile,
                   pathCall, cmd, ret, remembered, fellBack>>

\* runOssutilWithProgress lines 553-563: both streams have ended and cmd.Wait
\* has returned; compose the error, or force the last in-progress snapshot.
LoopReturn(j) ==
    /\ jobs[j].pc = "loop"
    /\ jobs[j].proc \in {"exit0", "exit1"}
    /\ IF jobs[j].proc = "exit1"
       THEN LET tail == RingString(jobs[j].outputTail)
            IN  /\ jobs' = [jobs EXCEPT
                              ![j].err = IF tail # <<>>
                                         THEN ExitErrorText \o <<":", " ">> \o tail
                                         ELSE ExitErrorText,
                              ![j].pc = "finalize"]
                /\ UNCHANGED sink
       ELSE EmitLast(j)
    /\ UNCHANGED <<transferLimiterPtr, pipeline, parsed, ringBuffer, splitter, now, releasePending, transferCtx, transferSeq, transferLimiter, setMaxPending,
                   ossutilPath, defaultOssutilPath, defaultStarts, settingsFile,
                   pathCall, cmd, ret, remembered, fellBack>>

\* Job job succeeds after its start fell back from a configured path.
FellBack(job) ==
    /\ job.err = <<>>
    /\ Len(job.starts) = 2
    /\ job.starts[1].binary # TORN

\* runTransfer returning on an error without the emit of line 431.
Finalize_SilentError(j) ==
    /\ jobs[j].pc = "finalize"
    /\ LET done == [jobs[j].update EXCEPT !.finishedAtMs = now,
                                           !.updatedAtMs = now]
           final == IF jobs[j].err # <<>>
                    THEN [done EXCEPT !.status = "error", !.message = jobs[j].err]
                    ELSE [done EXCEPT !.status = "success",
                                      !.doneBytes = IF done.totalBytes > 0
                                                    THEN done.totalBytes ELSE @]
       IN  /\ sink' = IF jobs[j].err # <<>> THEN sink
                      ELSE emitTransferUpdate(j, final)
           /\ jobs' = [jobs EXCEPT ![j].update = final, ![j].pc = "release"]
           /\ fellBack' = (fellBack \/ FellBack(jobs[j]))
    /\ UNCHANGED <<transferLimiterPtr, pipeline, parsed, ringBuffer, splitter, now, releasePending, transferCtx, transferSeq, transferLimiter, setMaxPending,
                   ossutilPath, defaultOssutilPath, defaultStarts, settingsFile,
                   pathCall, cmd, ret, remembered>>

\* runTransfer without the assignment of line 430: an error snapshot with the
\* message left as it was.
Finalize_NoMessage(j) ==
    /\ jobs[j].pc = "finalize"
    /\ LET done == [jobs[j].update EXCEPT !.finishedAtMs = now,
                                           !.updatedAtMs = now]
           final == IF jobs[j].err # <<>>
                    THEN [done EXCEPT !.status = "error"]
                    ELSE [done EXCEPT !.status = "success",
                                      !.doneBytes = IF done.totalBytes > 0
                                                    THEN done.totalBytes ELSE @]
       IN  /\ sink' = emitTransferUpdate(j, final)
           /\ jobs' = [jobs EXCEPT ![j].update = final, ![j].pc = "release"]
           /\ fellBack' = (fellBack \/ FellBack(jobs[j]))
    /\ UNCHANGED <<transferLimiterPtr, pipeline, parsed, ringBuffer, splitter, now, releasePending, transferCtx, transferSeq, transferLimiter, setMaxPending,
                   ossutilPath, defaultOssutilPath, defaultStarts, settingsFile,
                   pathCall, cmd, ret, remembered>>

\* runTransfer without the assignment of line 437: a success keeps the
\* doneBytes of the last progress line.
Finalize_KeepsDone(j) ==
    /\ jobs[j].pc = "finalize"
    /\ LET done == [jobs[j].update EXCEPT !.finishedAtMs = now,
                                           !.updatedAtMs = now]
           final == IF jobs[j].err # <<>>
                    THEN [done EXCEPT !.status = "error", !.message = jobs[j].err]
                    ELSE [done EXCEPT !.status = "success"]
       IN  /\ sink' = emitTransferUpdate(j, final)
           /\ jobs' = [jobs EXCEPT ![j].update = final, ![j].pc = "release"]
           /\ fellBack' = (fellBack \/ FellBack(jobs[j]))
    /\ UNCHANGED <<transferLimiterPtr, pipeline, parsed, ringBuffer, splitter, now, releasePending, transferCtx, transferSeq, transferLimiter, setMaxPending,
                   ossutilPath, defaultOssutilPath, defaultStarts, settingsFile,
                   pathCall, cmd, ret, remembered>>

\* runTransfer without line 425: the terminal snapshot keeps the updatedAtMs
\* of the snapshot before it.
Finalize_KeepsUpdated(j) ==
    /\ jobs[j].pc = "finalize"
    /\ LET done == [jobs[j].update EXCEPT !.finishedAtMs = now]
           final == IF jobs[j].err # <<>>
                    THEN [done EXCEPT !.status = "error", !.message = jobs[j].err]
                    ELSE [done EXCEPT !.status = "success",
                                      !.doneBytes = IF done.totalBytes > 0
                                                    THEN done.totalBytes ELSE @]
       IN  /\ sink' = emitTransferUpdate(j, final)
           /\ jobs' = [jobs EXCEPT ![j].update = final, ![j].pc = "release"]
           /\ fellBack' = (fellBack \/ FellBack(jobs[j]))
    /\ UNCHANGED <<transferLimiterPtr, pipeline, parsed, ringBuffer, splitter, now, releasePending, transferCtx, transferSeq, transferLimiter, setMaxPending,
                   ossutilPath, defaultOssutilPath, defaultStarts, settingsFile,
                   pathCall, cmd, ret, remembered>>

\* runTransfer lines 424-440: the terminal snapshot.
Finalize(j) ==
    /\ jobs[j].pc = "finalize"
    /\ LET done == [jobs[j].update EXCEPT !.finishedAtMs = now,
                                           !.updatedAtMs = now]
           final == IF jobs[j].err # <<>>
                    THEN [done EXCEPT !.status = "error", !.message = jobs[j].err]
                    ELSE [done EXCEPT !.status = "success",
                                      !.doneBytes = IF done.totalBytes > 0
                                                    THEN done.totalBytes ELSE @]
       IN  /\ sink' = emitTransferUpdate(j, final)
           /\ jobs' = [jobs EXCEPT ![j].update = final, ![j].pc = "release"]
           /\ fellBack' = (fellBack \/ FellBack(jobs[j]))
    /\ UNCHANGED <<transferLimiterPtr, pipeline, parsed, ringBuffer, splitter, now, releasePending, transferCtx, transferSeq, transferLimiter, setMaxPending,
                   ossutilPath, defaultOssutilPath, defaultStarts, settingsFile,
                   pathCall, cmd, ret, remembered>>

\* ------------------------------------------- the ring buffer on its own
\* The state of the service and of its jobs.
EngineVars ==
    <<transferCtx, transferSeq, transferLimiter, transferLimiterPtr, setMaxPending, jobs, sink,
      ossutilPath, defaultOssutilPath, defaultStarts, settingsFile, pathCall,
      cmd, ret, remembered, fellBack, now, releasePending>>

\* func newRingBuffer
NewRingBuffer(capacity) ==
    /\ ringBuffer = NoRing
    /\ ringBuffer' = [cap |-> IF capacity < 1 THEN 1 ELSE capacity,
                      data |-> <<>>, stream |-> <<>>]
    /\ UNCHANGED <<transferLimiterPtr, pipeline, parsed, splitter, EngineVars>>

\* A call of AppendLine on the buffer.
RingAppendLine(line) ==
    /\ ringBuffer.cap > 0
    /\ Len(ringBuffer.stream) + Len(RawLine(line)) <= MaxRingBytes
    /\ ringBuffer' = [ringBuffer EXCEPT
                        !.data = AppendLine(@, ringBuffer.cap, line),
                        !.stream = @ \o RawLine(line)]
    /\ UNCHANGED <<transferLimiterPtr, pipeline, parsed, splitter, EngineVars>>

\* -------------------------------------- parseProgressSegment on its own
\* Texts the external process may print for a byte count, a percentage and a
\* speed, each with what it says: has tells whether the text is of the form
\* the process uses for it, value is the count, m / 10^e the number, and k the
\* power of 1024 its unit prefix stands for.
SizeParts ==
    {[text |-> <<>>, has |-> FALSE, value |-> 0],
     [text |-> <<"O", "K", " ", "s", "i", "z", "e", ":", " ", "1", ",", "0", "4", "8", ",", "5", "7", "6">>, has |-> TRUE, value |-> 1048576],
     [text |-> <<"O", "K", "s", "i", "z", "e", ":", "5">>, has |-> TRUE, value |-> 5],
     [text |-> <<"B", "O", "O", "K", " ", "s", "i", "z", "e", ":", " ", "5">>, has |-> FALSE, value |-> 0]}
PercentParts ==
    {[text |-> <<>>, has |-> FALSE, m |-> 0, e |-> 0],
     [text |-> <<"P", "r", "o", "g", "r", "e", "s", "s", ":", " ", "4", "5", ".", "5", "%">>, has |-> TRUE, m |-> 455, e |-> 1],
     [text |-> <<"P", "r", "o", "g", "r", "e", "s", "s", ":", "5", "0", " ", "%">>, has |-> TRUE, m |-> 50, e |-> 0],
     [text |-> <<"P", "r", "o", "g", "r", "e", "s", "s", ":", " ", "4", "5", ".", "%">>, has |-> FALSE, m |-> 0, e |-> 0]}
SpeedParts ==
    {[text |-> <<>>, has |-> FALSE,
      m |-> 0, e |-> 0, k |-> 0],
     [text |-> <<"S", "p", "e", "e", "d", ":", " ", "2", ".", "5", "0", "M", "B", "/", "s">>, has |-> TRUE,
      m |-> 250, e |-> 2, k |-> 2],
     [text |-> <<"S", "p", "e", "e", "d", ":", " ", "1", "B", "/", "s">>, has |-> TRUE,
      m |-> 1, e |-> 0, k |-> 0],
     [text |-> <<"S", "p", "e", "e", "d", ":", " ", "1", "K", "B", "/", "s">>, has |-> TRUE,
      m |-> 1, e |-> 0, k |-> 1],
     [text |-> <<"S", "p", "e", "e", "d", ":", "3", " ", "G", "i", "B", "/", "s">>, has |-> TRUE,
      m |-> 3, e |-> 0, k |-> 3],
     [text |-> <<"S", "p", "e", "e", "d", ":", " ", "1", "T", "B", "/", "s">>, has |-> TRUE,
      m |-> 1, e |-> 0, k |-> 4],
     [text |-> <<"S", "p", "e", "e", "d", ":", " ", "0", ".", "5", "P", "B", "/", "s">>, has |-> TRUE,
      m |-> 5, e |-> 1, k |-> 5],
     [text |-> <<"S", "p", "e", "e", "d", ":", " ", "1", "X", "B", "/", "s">>, has |-> FALSE,
      m |-> 0, e |-> 0, k |-> 0]}

\* The text in capitals, in small letters, or as it is.
Upper(c) ==
    IF \E i \in 1 .. 26 : Lowers[i] = c
    THEN Uppers[CHOOSE i \in 1 .. 26 : Lowers[i] = c] ELSE c
Cases == {"asis", "upper", "lower"}
InCase(case, t) ==
    [i \in 1 .. Len(t) |-> IF case = "upper" THEN Upper(t[i])
                           ELSE IF case = "lower" THEN Lower(t[i]) ELSE t[i]]

\* The line as it is, in colour, or behind a carriage return and blanks.
Wraps == {"plain", "colour", "return"}
Wrapped(wrap, t) ==
    IF wrap = "colour" THEN <<ESC, "[", "3", "2", "m">> \o t \o <<ESC, "[", "0", "m">>
    ELSE IF wrap = "return" THEN <<"\r", " ">> \o t \o <<" ">>
    ELSE t

\* The lines: a byte count, a percentage and a speed, each there or not,
\* separated by commas.
ParseInputs ==
    [case : Cases, wrap : Wraps, size : SizeParts, percent : PercentParts,
     speed : SpeedParts]
SegmentOf(in) ==
    Wrapped(in.wrap, InCase(in.case, in.size.text \o <<",", " ">>
                                       \o in.percent.text \o <<",", " ">>
                                       \o in.speed.text))

\* The one call of parseProgressSegment followed here, made as the loop of
\* runOssutilWithProgress makes it, line 531.
ParseCall(in) ==
    /\ ~parsed.called
    /\ \E seg \in {SegmentOf(in)} :
          parsed' = [called |-> TRUE, in |-> in, seg |-> seg,
                     out |-> parseProgressSegment(stripANSI(seg))]
    /\ UNCHANGED <<transferLimiterPtr, pipeline, ringBuffer, splitter, EngineVars>>

\* --------------------------- the goroutines of runOssutilWithProgress
\* Lines 510-527 are reached: the process runs and is to write the given
\* numbers of lines; the two readers, the goroutine that closes segments and
\* the goroutine of cmd.Wait are started, and the loop begins.
StartGoroutines(nout, nerr) ==
    /\ pipeline.pc = "none"
    /\ pipeline' = [NoPipeline EXCEPT
                      !.pc = "running",
                      !.toWrite = [s \in Streams |->
                                     IF s = "stdout" THEN nout ELSE nerr]]
    /\ UNCHANGED <<parsed, ringBuffer, splitter, EngineVars>>

\* The process writes a line to one of its streams: the write goes through
\* when the pipe has room, and blocks the process otherwise.
ProcessWrite(s) ==
    /\ pipeline.pc = "running"
    /\ ~pipeline.exited
    /\ pipeline.toWrite[s] > 0
    /\ pipeline.pipe[s].buf < MaxPipeLines
    /\ pipeline' = [pipeline EXCEPT !.toWrite[s] = @ - 1,
                                    !.pipe[s].buf = @ + 1,
                                    !.written = @ + 1]
    /\ UNCHANGED <<parsed, ringBuffer, splitter, EngineVars>>

\* The process exits when it has written what it had to write; the write
\* ends of its pipes close with it.
ProcessExited ==
    /\ pipeline.pc = "running"
    /\ ~pipeline.exited
    /\ \A s \in Streams : pipeline.toWrite[s] = 0
    /\ pipeline' = [pipeline EXCEPT !.exited = TRUE]
    /\ UNCHANGED <<parsed, ringBuffer, splitter, EngineVars>>

\* splitOnCRLF of lines 515 and 519, r.Read: a line of the pipe is read; or
\* the pipe is empty and its write end closed, and Read returns io.EOF; or
\* the read end has been closed by cmd.Wait, Read returns an error, and what
\* the pipe held is not read.
StreamRead(s) ==
    /\ pipeline.pc = "running"
    /\ pipeline.reader[s].pc = "read"
    /\ IF pipeline.pipe[s].closed
       THEN pipeline' = [pipeline EXCEPT !.reader[s].pc = "done"]
       ELSE IF pipeline.pipe[s].buf > 0
       THEN pipeline' = [pipeline EXCEPT !.pipe[s].buf = @ - 1,
                                         !.reader[s].pc = "send"]
       ELSE /\ pipeline.exited
            /\ pipeline' = [pipeline EXCEPT !.reader[s].pc = "done",
                                            !.reader[s].atEOF = TRUE]
    /\ UNCHANGED <<parsed, ringBuffer, splitter, EngineVars>>

\* The emit of lines 515 and 519, segments <- seg: it blocks while the
\* channel is full.
SegmentSend(s) ==
    /\ pipeline.pc = "running"
    /\ pipeline.reader[s].pc = "send"
    /\ pipeline.segments.len < MaxSegments
    /\ pipeline' = [pipeline EXCEPT !.segments.len = @ + 1,
                                    !.sent = @ + 1,
                                    !.reader[s].pc = "read"]
    /\ UNCHANGED <<parsed, ringBuffer, splitter, EngineVars>>

\* Lines 521-524: wg.Wait() returns when both readers have returned, and the
\* channel is closed.
CloseSegments ==
    /\ pipeline.pc = "running"
    /\ ~pipeline.segments.closed
    /\ \A s \in Streams : pipeline.reader[s].pc = "done"
    /\ pipeline' = [pipeline EXCEPT !.segments.closed = TRUE]
    /\ UNCHANGED <<parsed, ringBuffer, splitter, EngineVars>>

\* Line 527, waitCh <- cmd.Wait(): Wait returns once the process has exited,
\* and closes the read ends that StdoutPipe and StderrPipe returned before it
\* does.
CmdWait ==
    /\ pipeline.pc = "running"
    /\ ~pipeline.waited
    /\ pipeline.exited
    /\ pipeline' = [pipeline EXCEPT
                      !.waited = TRUE,
                      !.waitCh = 1,
                      !.pipe = [s \in Streams |-> [@[s] EXCEPT !.closed = TRUE]]]
    /\ UNCHANGED <<parsed, ringBuffer, splitter, EngineVars>>

\* A loop that receives from waitCh before it ranges over segments.
RangeSegments_AfterWait ==
    /\ pipeline.pc = "running"
    /\ pipeline.loop = "range"
    /\ pipeline.waitCh = 1
    /\ IF pipeline.segments.len > 0
       THEN pipeline' = [pipeline EXCEPT !.segments.len = @ - 1,
                                         !.consumed = @ + 1]
       ELSE /\ pipeline.segments.closed
            /\ pipeline' = [pipeline EXCEPT !.loop = "receive"]
    /\ UNCHANGED <<parsed, ringBuffer, splitter, EngineVars>>

\* Lines 529-551, for seg := range segments: one line is taken and handled,
\* or the channel is closed and empty and the loop ends.
RangeSegments ==
    /\ pipeline.pc = "running"
    /\ pipeline.loop = "range"
    /\ IF pipeline.segments.len > 0
       THEN pipeline' = [pipeline EXCEPT !.segments.len = @ - 1,
                                         !.consumed = @ + 1]
       ELSE /\ pipeline.segments.closed
            /\ pipeline' = [pipeline EXCEPT !.loop = "receive"]
    /\ UNCHANGED <<parsed, ringBuffer, splitter, EngineVars>>

\* Lines 553-563: err = <-waitCh, and the call returns.
ReceiveWait ==
    /\ pipeline.pc = "running"
    /\ pipeline.loop = "receive"
    /\ pipeline.waitCh = 1
    /\ pipeline' = [pipeline EXCEPT !.waitCh = 0, !.pc = "returned"]
    /\ UNCHANGED <<parsed, ringBuffer, splitter, EngineVars>>

\* ---------------------------------------------- splitOnCRLF on its own
\* splitOnCRLF lines 293-305: the inner loop over pending, which emits every
\* segment that ends in "\r" or "\n" (trimmed, unless empty) and leaves the
\* rest. The result is the new pending and what has been emitted.
RECURSIVE Drain(_, _)
Drain(pending, out) ==
    LET idx == FirstMatch({i \in 1 .. Len(pending) : pending[i] \in {"\r", "\n"}})
        seg == TrimSpace(SubSeq(pending, 1, idx - 1))
    IN  IF idx = 0 THEN [pending |-> pending, out |-> out]
        ELSE Drain(SubSeq(pending, idx + 1, Len(pending)),
                   IF seg # <<>> THEN Append(out, seg) ELSE out)

\* The bytes of a Read thrown in without the bytes left from the Read before.
SplitChunk_NoCarry(pending, chunk, out) == Drain(chunk, out)

\* splitOnCRLF lines 291-305: the n bytes of a Read go behind pending.
SplitChunk(pending, chunk, out) == Drain(pending \o chunk, out)

\* The return that emits what is pending after any error.
SplitReturn_FlushesOnError(err, pending, out) ==
    IF err # "nil" /\ TrimSpace(pending) # <<>>
    THEN Append(out, TrimSpace(pending)) ELSE out

\* splitOnCRLF lines 307-317: what has been emitted when the Read's error has
\* been handled. Only io.EOF emits what is pending.
SplitReturn(err, pending, out) ==
    IF err = "EOF" /\ TrimSpace(pending) # <<>>
    THEN Append(out, TrimSpace(pending)) ELSE out

\* splitOnCRLF is called on a reader that holds stream.
SplitStart(stream) ==
    /\ splitter = NoSplit
    /\ splitter' = [NoSplit EXCEPT !.state = "reading", !.stream = stream,
                                   !.rest = stream]
    /\ UNCHANGED <<transferLimiterPtr, pipeline, parsed, ringBuffer, EngineVars>>

\* One pass of the loop of splitOnCRLF: r.Read returns the next n bytes and
\* err. io.EOF comes with or after the last bytes; any other error may come
\* at any time, with or without bytes; a Read without bytes and without error
\* changes nothing.
SplitRead(n, err) ==
    /\ splitter.state = "reading"
    /\ n <= Len(splitter.rest) /\ n <= MaxChunk
    /\ err = "EOF" => n = Len(splitter.rest)
    /\ err = "nil" => n > 0
    /\ \E read \in {SplitChunk(splitter.pending,
                                SubSeq(splitter.rest, 1, n), splitter.out)} :
          splitter' = [splitter EXCEPT
                         !.rest = SubSeq(@, n + 1, Len(@)),
                         !.pending = read.pending,
                         !.out = SplitReturn(err, read.pending, read.out),
                         !.chunks = IF n > 0 THEN @ + 1 ELSE @,
                         !.state = CASE err = "nil" -> "reading"
                                     [] err = "EOF" -> "nil"
                                     [] OTHER -> "err"]
    /\ UNCHANGED <<transferLimiterPtr, pipeline, parsed, ringBuffer, EngineVars>>

\* ------------------------------------------------------- specifications
\* The arguments tried: one accepted call and one call per way of rejection.
\* Uploads are <<bucket, prefix, localPath>>, downloads are <<bucket, object,
\* localPath, totalBytes>>.
UploadInputs ==
    {<<<<"b">>, <<"p">>, <<"f">>>>, <<<<"b">>, <<"/", "p", "/">>, <<" ", "f">>>>,
     <<<<"b">>, <<"p">>, <<" ">>>>, <<<<" ">>, <<"p">>, <<"f">>>>,
     <<<<"b">>, <<"p">>, <<"m">>>>, <<<<"b">>, <<"p">>, <<"d">>>>}
DownloadInputs ==
    {<<<<"b">>, <<"k">>, <<"f">>, FileSize>>,
     <<<<"b">>, <<" ", "/", "k">>, <<"f", " ">>, FileSize>>,
     <<<<"b">>, <<"k">>, <<>>, FileSize>>, <<<<>>, <<"k">>, <<"f">>, FileSize>>,
     <<<<"b">>, <<"/">>, <<"f">>, FileSize>>}

\* The steps of the runTransfer goroutine of job j: admission, ...
AdmitStep(j) ==
    \/ JobStart(j)
    \/ JobInstall(j)
    \/ Acquire(j)
    \/ Release(j)
    \/ ReleaseBroadcast(j)

\* ... the transfer itself, with the exit of its process, ...
RunStep(j) ==
    \/ BeginTransfer(j)
    \/ ResolveBinary(j)
    \/ StartPrimary(j)
    \/ \E code \in {"exit0", "exit1"} : ProcessExit(j, code)
    \/ LoopReturn(j)
    \/ Finalize(j)

\* ... the retry with the fallback binary, ...
FallbackStep(j) ==
    \/ StartFallback(j)
    \/ StoreFallback(j)

\* ... and the loop over at most maxLines lines out of lines.
OutputStep(j, lines, maxLines) ==
    \E line \in lines : jobs[j].nread < maxLines /\ ReadLine(j, line)

AcceptedUploads == {in \in UploadInputs : UploadError(in[1], in[3]) = ""}
AcceptedDownloads == {in \in DownloadInputs : DownloadError(in[1], in[2], in[3]) = ""}

\* The engine: submission, admission and execution of jobs under a limit that
\* is changed at run time. No settings call is made, so the stored path stays
\* the default path and the condition of line 470 is never true.
EngineLines == {LineOKSize, LineError}

Next ==
    \/ Startup
    \/ \E in \in AcceptedUploads :
          transferSeq < MaxJobs /\ EnqueueUpload(in[1], in[2], in[3])
    \/ \E in \in AcceptedDownloads :
          transferSeq < MaxJobs /\ EnqueueDownload(in[1], in[2], in[3], in[4])
    \/ \E n \in 0 .. MaxLimit : SetMaxTransferThreads(n)
    \/ SetMaxBroadcast
    \/ \E j \in Jobs : AdmitStep(j)
    \/ \E j \in Jobs : RunStep(j)
    \/ \E j \in Jobs : OutputStep(j, EngineLines, MaxEngineLines)

Spec == Init /\ [][Next]_vars

\* The stored path: jobs one after another (the limiter is the one runTransfer
\* installs, of one slot), the settings calls and the one-shot commands.
PathNext ==
    \/ Startup
    \/ \E in \in AcceptedUploads :
          transferSeq < MaxJobs /\ EnqueueUpload(in[1], in[2], in[3])
    \/ \E j \in Jobs : AdmitStep(j)
    \/ \E j \in Jobs : RunStep(j)
    \/ \E j \in Jobs : FallbackStep(j)
    \/ \E path \in PathInputs : SetOssutilPath(path)
    \/ GetSettings
    \/ \E path \in PathInputs : SaveSettings(path)
    \/ PathCallAssign
    \/ CmdResolve
    \/ CmdRunPrimary
    \/ CmdRunFallback
    \/ CmdStore

PathSpec == Init /\ [][PathNext]_vars

\* One job followed through every line its process may print, and every way
\* an Enqueue call is rejected.
JobNext ==
    \/ Startup
    \/ \E in \in UploadInputs :
          /\ UploadError(in[1], in[3]) = "" => transferSeq < 1
          /\ EnqueueUpload(in[1], in[2], in[3])
    \/ \E in \in DownloadInputs :
          /\ DownloadError(in[1], in[2], in[3]) = "" => transferSeq < 1
          /\ EnqueueDownload(in[1], in[2], in[3], in[4])
    \/ \E j \in Jobs : AdmitStep(j)
    \/ \E j \in Jobs : RunStep(j)
    \/ \E j \in Jobs : OutputStep(j, Lines, MaxLines)

JobSpec == Init /\ [][JobNext]_vars

\* One download followed through the progress its process reports, with the
\* clock running while the process does: the size of the object is unknown (0)
\* or 1000 bytes, and the process prints byte counts below and above that
\* size, a percentage above 100, and speeds.
ProgressTotals == {0, 1000}
ProgressLines ==
    {<<"O", "K", " ", "s", "i", "z", "e", ":", " ", "2", "0", "0", ",", " ",
       "S", "p", "e", "e", "d", ":", " ", "1", "0", "0", "B", "/", "s">>,
     <<"O", "K", " ", "s", "i", "z", "e", ":", " ", "8", "0", "0">>,
     <<"O", "K", " ", "s", "i", "z", "e", ":", " ", "2", ",", "0", "0", "0">>,
     <<"P", "r", "o", "g", "r", "e", "s", "s", ":", " ", "1", "5", "0", "%">>,
     <<"S", "p", "e", "e", "d", ":", " ", "0", ".", "0", "0", "0", "0", "0", "0",
       "0", "0", "0", "0", "0", "0", "0", "0", "0", "0", "0", "0", "0", "1", "B",
       "/", "s">>}

\* The clock advances by half the emit interval or by all of it.
TickSteps == {emitInterval \div 2, emitInterval}

ProgressNext ==
    \/ Startup
    \/ \E total \in ProgressTotals :
          /\ transferSeq < 1
          /\ EnqueueDownload(<<"b">>, <<"k">>, <<"f">>, total)
    \/ \E j \in Jobs : AdmitStep(j)
    \/ \E j \in Jobs : RunStep(j)
    \/ \E j \in Jobs : OutputStep(j, ProgressLines, MaxProgressLines)
    \/ \E d \in TickSteps : (\E j \in Jobs : jobs[j].pc = "loop") /\ Tick(d)

ProgressSpec == Init /\ [][ProgressNext]_vars

\* One download of unknown size (0) or of 1000 bytes whose process reports
\* percentages, with and without a byte count, and a speed.
LinePercent == <<"P", "r", "o", "g", "r", "e", "s", "s", ":", " ", "0", ".", "7", "%">>
LineBoth == <<"O", "K", " ", "s", "i", "z", "e", ":", " ", "5", " ",
              "p", "r", "o", "g", "r", "e", "s", "s", ":", "5", "0", "%">>
PercentLines == {LinePercent, LineProgress, LineBoth, LineSpeed, LineError}

PercentNext ==
    \/ Startup
    \/ \E total \in ProgressTotals :
          /\ transferSeq < 1
          /\ EnqueueDownload(<<"b">>, <<"k">>, <<"f">>, total)
    \/ \E j \in Jobs : AdmitStep(j)
    \/ \E j \in Jobs : RunStep(j)
    \/ \E j \in Jobs : OutputStep(j, PercentLines, MaxPercentLines)

PercentSpec == Init /\ [][PercentNext]_vars

\* One download with the clock running from the start of the service on, so
\* that time passes between any two of its snapshots.
ClockNext ==
    \/ Startup
    \/ transferSeq < 1 /\ EnqueueDownload(<<"b">>, <<"k">>, <<"f">>, 1000)
    \/ \E j \in Jobs : AdmitStep(j)
    \/ \E j \in Jobs : RunStep(j)
    \/ \E j \in Jobs : OutputStep(j, ProgressLines, MaxProgressLines)
    \/ \E d \in TickSteps : transferCtx # "nil" /\ Tick(d)

ClockSpec == Init /\ [][ClockNext]_vars

\* A ring buffer of a capacity from 0 (taken as 1) to MaxRingCap, given lines
\* shorter than, as long as and longer than its capacity, the empty line, and
\* a line that ends in a newline already.
ParseNext == \E in \in ParseInputs : ParseCall(in)

ParseSpec == Init /\ [][ParseNext]_vars

PipelineNext ==
    \/ \E nout \in 0 .. MaxOutput : \E nerr \in 0 .. MaxOutput :
          StartGoroutines(nout, nerr)
    \/ \E s \in Streams : ProcessWrite(s)
    \/ ProcessExited
    \/ \E s \in Streams : StreamRead(s)
    \/ \E s \in Streams : SegmentSend(s)
    \/ CloseSegments
    \/ CmdWait
    \/ RangeSegments
    \/ ReceiveWait

PipelineSpec == Init /\ [][PipelineNext]_vars

\* The process is scheduled while it can run, and so is every goroutine.
PipelineFairness ==
    /\ \A s \in Streams : WF_vars(ProcessWrite(s))
    /\ WF_vars(ProcessExited)
    /\ \A s \in Streams : WF_vars(StreamRead(s))
    /\ \A s \in Streams : WF_vars(SegmentSend(s))
    /\ WF_vars(CloseSegments)
    /\ WF_vars(CmdWait)
    /\ WF_vars(RangeSegments)
    /\ WF_vars(ReceiveWait)

FairPipelineSpec == PipelineSpec /\ PipelineFairness

RingLines ==
    {<<>>, <<"a">>, <<"a", "b">>, <<"a", "b", "c">>, <<"b", "\n">>,
     <<"a", "b", "c", "d", "e">>}

RingNext ==
    \/ \E capacity \in 0 .. MaxRingCap : NewRingBuffer(capacity)
    \/ \E line \in RingLines : RingAppendLine(line)

RingSpec == Init /\ [][RingNext]_vars

\* splitOnCRLF on every stream of up to MaxSplitBytes bytes out of a letter,
\* a blank, "\r" and "\n", read in every division into chunks, ended by
\* io.EOF or broken off by another error.
SplitBytes == {"a", " ", "\r", "\n"}
SplitStreams == UNION {[1 .. n -> SplitBytes] : n \in 0 .. MaxSplitBytes}
ReadErrors == {"nil", "EOF", "ErrIO"}

SplitNext ==
    \/ \E stream \in SplitStreams : SplitStart(stream)
    \/ \E n \in 0 .. MaxChunk : \E err \in ReadErrors : SplitRead(n, err)

SplitSpec == Init /\ [][SplitNext]_vars

\* The limiter on its own terms: limits below 1, and Release calls that no
\* Acquire preceded, next to the jobs that use it.
LimitInputs == -1 .. MaxLimit

LimiterNext ==
    \/ Startup
    \/ \E in \in AcceptedUploads :
          transferSeq < MaxJobs /\ EnqueueUpload(in[1], in[2], in[3])
    \/ \E n \in LimitInputs : SetMaxTransferThreads(n)
    \/ SetMaxBroadcast
    \/ ReleaseCall
    \/ ReleaseCallBroadcast
    \/ \E j \in Jobs : AdmitStep(j)
    \/ \E j \in Jobs : RunStep(j)

LimiterSpec == Init /\ [][LimiterNext]_vars

\* The key and the name of one job: prefixes with and without slashes at
\* either end, a local path inside a directory, and object keys that end in a
\* slash, in a dot, or are slashes only.
KeyUploads ==
    {<<<<"b">>, prefix, localPath>> :
        prefix \in {<<>>, <<"p">>, <<"/", "p", "/">>, <<"/">>, <<"p", "/", "q">>},
        localPath \in {<<"f">>, <<" ", "d", "/", "f", " ">>}}
KeyDownloads ==
    {<<<<"b">>, object, <<"f">>, FileSize>> :
        object \in {<<"k">>, <<" ", "/", "k">>, <<"p", "/", "k">>, <<"p", "/">>,
                    <<"a", "/", ".">>, <<".">>, <<"/", "/", "/">>}}

KeyNext ==
    \/ Startup
    \/ \E in \in KeyUploads :
          transferSeq < 1 /\ EnqueueUpload(in[1], in[2], in[3])
    \/ \E in \in KeyDownloads :
          transferSeq < 1 /\ EnqueueDownload(in[1], in[2], in[3], in[4])
    \/ \E j \in Jobs : AdmitStep(j)
    \/ \E j \in Jobs : RunStep(j)
    \/ \E j \in Jobs : OutputStep(j, EngineLines, MaxEngineLines)

KeySpec == Init /\ [][KeyNext]_vars

\* runTransfer started, as the Enqueue operations start it (lines 172-174), on
\* an update of any kind: TransferType is a string, and the switch of
\* runTransfer has a default case for the kinds Enqueue never sets.
Kinds == {"upload", "download", "copy", ""}

RunTransferCall(kind) ==
    /\ transferCtx # "nil"
    /\ Launch([UploadUpdate(<<"b">>, <<"p">>, <<"f">>) EXCEPT !.type = kind],
              TransferId(now, transferSeq + 1))
    /\ UNCHANGED <<transferLimiterPtr, pipeline, parsed, ringBuffer, splitter, now, releasePending, transferCtx, transferLimiter, setMaxPending, ossutilPath,
                   defaultOssutilPath, defaultStarts, settingsFile, pathCall, cmd,
                   remembered, fellBack>>

KindNext ==
    \/ Startup
    \/ \E kind \in Kinds : transferSeq < MaxJobs /\ RunTransferCall(kind)
    \/ \E n \in 1 .. MaxLimit : SetMaxTransferThreads(n)
    \/ SetMaxBroadcast
    \/ \E j \in Jobs : AdmitStep(j)
    \/ \E j \in Jobs : RunStep(j)
    \/ \E j \in Jobs : OutputStep(j, EngineLines, MaxEngineLines)

KindSpec == Init /\ [][KindNext]_vars

\* The ways out of runTransfer: calls of any kind, on a machine whose stored
\* path the settings page may set to a path where nothing can be started, so
\* that the start of the primary and of the fallback binary may both fail,
\* under a limit of one slot or more.
ExitNext ==
    \/ Startup
    \/ \E kind \in Kinds : transferSeq < MaxJobs /\ RunTransferCall(kind)
    \/ \E n \in 1 .. MaxLimit : SetMaxTransferThreads(n)
    \/ SetMaxBroadcast
    \/ SetOssutilPath(BAD)
    \/ PathCallAssign
    \/ \E j \in Jobs : AdmitStep(j)
    \/ \E j \in Jobs : RunStep(j)
    \/ \E j \in Jobs : FallbackStep(j)

ExitSpec == Init /\ [][ExitNext]_vars

\* Admission on its own: more jobs than the limit has slots, so that several
\* wait in Acquire at once while the limit is set to anything from 1 to the
\* number of jobs. The processes print nothing.
AdmitLimits == 1 .. MaxAdmitJobs

AdmitNext ==
    \/ Startup
    \/ transferSeq < MaxAdmitJobs /\ EnqueueUpload(<<"b">>, <<"p">>, <<"f">>)
    \/ \E n \in AdmitLimits : SetMaxTransferThreads(n)
    \/ SetMaxBroadcast
    \/ \E j \in Jobs : AdmitStep(j)
    \/ \E j \in Jobs : RunStep(j)

AdmitSpec == Init /\ [][AdmitNext]_vars

\* The queue of Acquire: three jobs for the one slot or the two slots of a
\* limit that is set again and again. The processes print nothing.
DrainNext ==
    \/ Startup
    \/ transferSeq < MaxAdmitJobs /\ EnqueueUpload(<<"b">>, <<"p">>, <<"f">>)
    \/ \E n \in 1 .. MaxLimit : SetMaxTransferThreads(n)
    \/ SetMaxBroadcast
    \/ \E j \in Jobs : AdmitStep(j)
    \/ \E j \in Jobs : RunStep(j)

DrainSpec == Init /\ [][DrainNext]_vars

\* The engine under fair scheduling. A goroutine that can take its next step
\* takes it (the Go scheduler is preemptive); the readers of transferLimiterMu
\* blocked by a writer are released when it unlocks, however often writers
\* come back (sync.RWMutex); a SetMax that has unlocked l.mu goes on to its
\* Broadcast. Nothing is assumed of the external process or of the callers.
ProgramStep(j) ==
    \/ Acquire(j)
    \/ Release(j)
    \/ ReleaseBroadcast(j)
    \/ BeginTransfer(j)
    \/ ResolveBinary(j)
    \/ StartPrimary(j)
    \/ LoopReturn(j)
    \/ Finalize(j)

FairnessOf(js) ==
    /\ WF_vars(SetMaxBroadcast)
    /\ \A j \in js : WF_vars(ProgramStep(j))
    /\ \A j \in js : SF_vars(JobStart(j) \/ JobInstall(j))

\* The jobs the engine takes.
EngineJobs == 1 .. MaxJobs
Fairness == FairnessOf(EngineJobs)

FairSpec == Spec /\ Fairness

\* Admission under the same scheduling.
FairAdmitSpec == AdmitSpec /\ FairnessOf(Jobs)
FairDrainSpec == DrainSpec /\ FairnessOf(Jobs)

\* ------------------------------------------------------------------ claims
\* The statuses of the snapshots of job j the sink has received, in order.
Statuses(j) == [i \in 1 .. Len(sink[j]) |-> sink[j][i].status]
TerminalStatus == {"success", "error"}
\* The positions of the terminal snapshots of job j in the sink.
Terminals(j) == {i \in 1 .. Len(sink[j]) : sink[j][i].status \in TerminalStatus}
Delivered(j) == Terminals(j) # {}
\* Job j has emitted its in-progress snapshot and not its terminal one.
Running(j) == "in-progress" \in {sink[j][i].status : i \in 1 .. Len(sink[j])}
              /\ ~Delivered(j)
RunningJobs == {j \in Jobs : Running(j)}
\* Acquire has not returned for job j yet.
BeforeAcquire(j) == jobs[j].pc \in {"idle", "start", "install", "acquire", "waiting"}
\* Release has been called for job j.
Released(j) == jobs[j].pc \in {"broadcast", "done"}

\* C1 as stated: the active count never exceeds the current max.
C1_ActiveWithinMax == transferLimiter.active <= transferLimiter.max

\* C1: Acquire admits only while active < max, and the active count exceeds
\* max only after a SetMax has lowered max below the number of slots held;
\* from then on it does not grow until it is back within max.
C1_ExceedsOnlyByLowering ==
    [][/\ transferLimiter'.active > transferLimiter.active
          => transferLimiter.active < transferLimiter.max
       /\ transferLimiter'.active > transferLimiter'.max
          => \/ transferLimiter'.max < transferLimiter.max
             \/ /\ transferLimiter.active > transferLimiter.max
                /\ transferLimiter'.active <= transferLimiter.active
       /\ transferLimiter'.active >= 0]_vars

\* Two jobs hold their slots and SetMax(1) has completed: the limit is below
\* the slots held.
C1_LoweredWhileHeld ==
    /\ transferLimiter.max = 1
    /\ transferLimiter.active = 2
    /\ ~setMaxPending
    /\ \A j \in {1, 2} : jobs[j].pc = "loop"

\* C2 as stated: the jobs running are at most the configured limit.
C2_RunningWithinLimit == Cardinality(RunningJobs) <= transferLimiter.max

\* C2: the jobs that have emitted in-progress and not yet a terminal snapshot
\* are at most the slots held (the active count, which C1 relates to max): a
\* job emits in-progress only after Acquire has returned for it, and Release
\* is called for it only after its terminal snapshot.
C2_RunningHoldSlots ==
    /\ Cardinality(RunningJobs) <= transferLimiter.active
    /\ \A j \in Jobs :
         /\ BeforeAcquire(j) => Statuses(j) \in {<<>>, <<"queued">>}
         /\ Released(j) => Delivered(j)

\* Both jobs are running under a limit of two.
C2_TwoRunning ==
    /\ Cardinality(RunningJobs) = 2
    /\ transferLimiter.max = 2
    /\ transferLimiter.active = 2

\* C3: per job the sink sees queued first and once, then in-progress
\* snapshots, then terminal ones; a terminal snapshot follows an in-progress one.
C3_StatusOrder ==
    \A j \in Jobs : \A i \in 1 .. Len(sink[j]) :
        /\ (i = 1) = (sink[j][i].status = "queued")
        /\ sink[j][i].status \in {"queued", "in-progress"} \cup TerminalStatus
        /\ i > 1 /\ sink[j][i - 1].status \in TerminalStatus
           => sink[j][i].status \in TerminalStatus
        /\ sink[j][i].status \in TerminalStatus
           => \E k \in 1 .. i - 1 : sink[j][k].status = "in-progress"

\* A job went through queued, in-progress, a progress report and an error.
C3_FullSequence ==
    \E j \in Jobs :
        Statuses(j) = <<"queued", "in-progress", "in-progress", "error">>

\* The external process of job j, if one is started, eventually exits (and
\* closes its streams).
ProcessExits(j) == (jobs[j].proc = "running") ~> (jobs[j].proc # "running")
\* Enqueue has returned the id j.
Enqueued(j) == jobs[j].pc = "start"
\* At most one terminal snapshot per job, nothing after it, and an error
\* snapshot carries a message; a job that failed is not reported as a success.
OneTerminal ==
    \A j \in Jobs :
        /\ Cardinality(Terminals(j)) <= 1
        /\ Terminals(j) \subseteq {Len(sink[j])}
        /\ \A i \in Terminals(j) :
             sink[j][i].status = "error" => sink[j][i].message # <<>>
        /\ Released(j) /\ jobs[j].pc # "done"
           => (sink[j][Len(sink[j])].status = "error")
                = (jobs[j].err # <<>> \/ jobs[j].kind \notin {"upload", "download"})

\* C4 as stated: a job whose own process exits delivers a terminal snapshot.
C4_OwnProcessExits ==
    \A j \in EngineJobs : ProcessExits(j) => (Enqueued(j) ~> Delivered(j))

\* C4: if the process of every job eventually exits, every enqueued job
\* eventually delivers a terminal snapshot; a job delivers at most one, nothing
\* after it, and a failure is delivered as status error with a message.
C4_EveryProcessExits ==
    /\ []OneTerminal
    /\ (\A k \in EngineJobs : ProcessExits(k))
          => \A j \in EngineJobs : Enqueued(j) ~> Delivered(j)

\* One job has failed and one has succeeded, both have returned.
C4_BothDelivered ==
    /\ jobs[1].pc = "done" /\ jobs[2].pc = "done"
    /\ Statuses(1)[Len(sink[1])] = "error" /\ sink[1][Len(sink[1])].message # <<>>
    /\ Statuses(2)[Len(sink[2])] = "success"

\* C5: whenever the service is up (and the bound on jobs leaves an id), each
\* Enqueue call on valid input can complete at once, whatever the limiter
\* holds; the ids returned so far each have their queued snapshot in the
\* sink, and a job waiting for a slot waits in its own goroutine, after its
\* queued snapshot and with its id returned.
C5_EnqueueNeverWaits ==
    /\ transferCtx # "nil" /\ transferSeq < MaxJobs
       => /\ \A in \in AcceptedUploads : ENABLED EnqueueUpload(in[1], in[2], in[3])
          /\ \A in \in AcceptedDownloads :
                ENABLED EnqueueDownload(in[1], in[2], in[3], in[4])
    /\ ret.err = "" /\ ret.id # <<>> => ret.id[2] = transferSeq
    /\ \A j \in 1 .. transferSeq :
          /\ sink[j] # <<>> /\ sink[j][1].status = "queued"
          /\ jobs[j].pc # "idle"
    /\ \A j \in Jobs : jobs[j].pc = "waiting" => j <= transferSeq

\* The second job got its id and its queued snapshot and waits for the one
\* slot, which the first job holds; a third call would be served as well.
C5_SecondJobWaits ==
    /\ transferLimiter.active = transferLimiter.max
    /\ jobs[2].pc = "waiting"
    /\ ret = [err |-> "", id |-> TransferId(0, 2)]
    /\ Len(sink[2]) = 1 /\ sink[2][1].status = "queued"

\* The inputs the two operations reject, by the listed reasons.
RejectedCases ==
    /\ UploadError(<<"b">>, <<" ">>) = "local path is empty"
    /\ UploadError(<<" ">>, <<"f">>) = "bucket is empty"
    /\ UploadError(<<"b">>, <<"m">>) = "stat local file failed"
    /\ UploadError(<<"b">>, <<"d">>) = "upload currently supports files only"
    /\ DownloadError(<<"b">>, <<"k">>, <<>>) = "local path is empty"
    /\ DownloadError(<<>>, <<"k">>, <<"f">>) = "bucket is empty"
    /\ DownloadError(<<"b">>, <<"/">>, <<"f">>) = "object key is empty"

\* C6: a call that returns an error returns no id and leaves the sequence
\* counter, the jobs, the sink and the limiter as they were; the listed
\* inputs are rejected.
C6_RejectChangesNothing ==
    [][/\ RejectedCases
       /\ ret' # ret /\ ret'.err # ""
          => /\ ret'.id = <<>>
             /\ UNCHANGED <<transferSeq, jobs, sink, transferLimiter>>]_vars

\* A download with the object key "/" was rejected while a job was running.
C6_RejectedWhileRunning ==
    /\ ret = [err |-> "object key is empty", id |-> <<>>]
    /\ jobs[1].pc = "loop"
    /\ transferSeq = 1
    /\ Len(sink[1]) = 2

\* The last snapshot of job j in the sink.
LastSnapshot(j) == sink[j][Len(sink[j])]
\* s ends with t.
EndsWith(s, t) ==
    Len(t) <= Len(s) /\ SubSeq(s, Len(s) - Len(t) + 1, Len(s)) = t

\* C10: the terminal snapshot of a job whose process exited non-zero has
\* status error; its message is the exit error, followed by ": " and the
\* contents of the ring buffer when that holds text, which ends with the last
\* diagnostic text read; without a non-progress line it is the exit error alone.
C10_MessageCarriesTail ==
    \A j \in Jobs :
        jobs[j].proc = "exit1" /\ jobs[j].pc \in {"release", "broadcast"}
        => LET tail == RingString(jobs[j].outputTail)
               msg == LastSnapshot(j).message
           IN  /\ LastSnapshot(j).status = "error"
               /\ msg = IF tail = <<>> THEN ExitErrorText
                         ELSE ExitErrorText \o <<":", " ">> \o tail
               /\ ~jobs[j].sawDiag => msg = ExitErrorText
               /\ jobs[j].lastDiag # <<>>
                  => tail # <<>> /\ EndsWith(msg, jobs[j].lastDiag)

\* The process printed an error line in red, then "size:5", and exited
\* non-zero: the message carries both lines.
C10_TwoLinesInMessage ==
    \E j \in Jobs :
        /\ jobs[j].pc = "release"
        /\ LastSnapshot(j).message =
              ExitErrorText \o <<":", " ", "E", "\n">> \o LineSized

\* The start attempts of job j that spawned a process.
Spawned(j) == {i \in 1 .. Len(jobs[j].starts) : jobs[j].starts[i].err = "ok"}
\* The first start of job j failed for a could-not-start reason and a
\* distinct, non-empty fallback is known.
MustRetry(j) ==
    /\ Len(jobs[j].starts) >= 1
    /\ ossutilStartFailed(jobs[j].starts[1].err)
    /\ jobs[j].fallback # <<>>
    /\ jobs[j].fallback # jobs[j].starts[1].binary

\* C7 as stated: a could-not-start failure of the primary with a distinct
\* fallback known is followed by exactly one start of the fallback, and no
\* other failure is; when that start succeeds the stored path becomes the
\* fallback, and when it fails the stored path stays and the job ends in error.
C7_RetryOnceAndStore ==
    [][\A j \in Jobs :
         /\ Len(jobs'[j].starts) <= 2
         /\ Len(jobs'[j].starts) = 2
            => /\ MustRetry(j)'
               /\ jobs'[j].starts[2].binary = jobs'[j].fallback
         /\ MustRetry(j)' /\ jobs'[j].pc \in {"store", "loop", "finalize", "release"}
            => Len(jobs'[j].starts) = 2
         /\ jobs[j].pc = "store" /\ jobs'[j].pc = "loop"
            => ossutilPath' = jobs[j].fallback
         /\ jobs[j].pc = "fallback" /\ jobs'[j].pc = "finalize"
            => ossutilPath' = ossutilPath /\ jobs'[j].err # <<>>
         /\ jobs[j].pc = "finalize" /\ jobs'[j].pc = "release" /\ Spawned(j) = {}
            => LastSnapshot(j)'.status = "error"]_vars

\* C8 as stated: a job that reads the stored path after a job has succeeded
\* by falling back starts the fallback, and that start succeeds (jobs that
\* read a torn path left aside).
C8_FallbackFromThenOn ==
    \A j \in Jobs :
        jobs[j].afterFallback /\ jobs[j].primary # TORN
        => \A i \in 1 .. Len(jobs[j].starts) :
              jobs[j].starts[i] = [binary |-> jobs[j].fallback, err |-> "ok"]

\* C8: a job that reads the stored path after a job stored its fallback, with
\* no SetOssutilPath, GetSettings or SaveSettings call begun since and no
\* assignment of another path in flight, starts the fallback directly, and
\* that start succeeds. A runOssutil command in between does not matter.
C8_FallbackUntilSettingsCall ==
    \A j \in Jobs :
        jobs[j].sawRemembered
        => /\ jobs[j].primary = jobs[j].fallback
           /\ \A i \in 1 .. Len(jobs[j].starts) :
                 jobs[j].starts[i] = [binary |-> jobs[j].fallback, err |-> "ok"]

\* After a job succeeded by falling back, the next one started the fallback
\* at once.
C8_NextJobStartsFallback ==
    \E j \in Jobs :
        /\ jobs[j].afterFallback /\ jobs[j].sawRemembered
        /\ jobs[j].pc = "loop"
        /\ jobs[j].starts = <<[binary |-> jobs[j].fallback, err |-> "ok"]>>

\* C9: once a process was spawned for a job no further start is made for it;
\* from the non-zero exit on, the steps of the job leave the stored path
\* alone, and the job ends with status error and one process spawned.
C9_NoRetryAfterExit ==
    [][\A j \in Jobs :
         /\ jobs'[j].starts # jobs[j].starts /\ jobs[j].pc # "broadcast"
            => jobs[j].proc = "none"
         /\ /\ jobs[j].proc = "exit1"
            /\ jobs[j].pc \in {"loop", "finalize", "release", "broadcast"}
            /\ jobs'[j] # jobs[j]
            => ossutilPath' = ossutilPath
         /\ jobs[j].proc = "exit1" /\ jobs[j].pc = "finalize" /\ jobs'[j].pc = "release"
            => /\ LastSnapshot(j)'.status = "error"
               /\ Cardinality(Spawned(j)') = 1]_vars

\* A job that started through the fallback saw its process exit non-zero
\* and has delivered its error.
C9_FailedAfterFallback ==
    \E j \in Jobs :
        /\ jobs[j].proc = "exit1" /\ jobs[j].pc = "release"
        /\ Len(jobs[j].starts) = 2
        /\ LastSnapshot(j).status = "error"
        /\ ossutilPath = jobs[j].fallback

\* ------------------------------------------------------ progress snapshots
\* The snapshots of job j the sink has received, by position.
Snapshots(j) == DOMAIN sink[j]
\* The position of the first in-progress snapshot of job j (0 if none).
FirstRunning(j) ==
    LET at == {i \in Snapshots(j) : sink[j][i].status = "in-progress"}
    IN  IF at = {} THEN 0 ELSE CHOOSE i \in at : \A k \in at : i <= k

\* C11: an in-progress snapshot of a job other than its first one is delivered
\* at least the emit interval (250 ms) after the previous snapshot of the job;
\* only the queued, the first in-progress and the terminal snapshot are
\* delivered regardless of the interval. (A snapshot is delivered at the time
\* its updatedAtMs holds.)
C11_ThrottledBetweenSnapshots ==
    \A j \in Jobs : \A i \in Snapshots(j) :
       sink[j][i].status = "in-progress" /\ i # FirstRunning(j)
       => sink[j][i].updatedAtMs - sink[j][i - 1].updatedAtMs >= emitInterval

\* C12: in every snapshot of a job with totalBytes > 0, doneBytes is between
\* 0 and totalBytes, whatever the process prints.
C12_DoneWithinTotal ==
    \A j \in Jobs : \A i \in Snapshots(j) :
       sink[j][i].totalBytes > 0
       => sink[j][i].doneBytes >= 0
          /\ sink[j][i].doneBytes <= sink[j][i].totalBytes

\* C13: doneBytes does not decrease from one snapshot of a job to the next.
C13_DoneNeverDecreases ==
    \A j \in Jobs : \A i \in Snapshots(j) :
       i > 1 => sink[j][i - 1].doneBytes <= sink[j][i].doneBytes

\* C14: a job with totalBytes > 0 whose process has exited with status zero
\* ends with a snapshot of status success and doneBytes = totalBytes, whatever
\* was parsed from the output; and every success snapshot of a job with
\* totalBytes > 0 has doneBytes = totalBytes.
C14_SuccessIsComplete ==
    [][\A j \in Jobs :
          /\ jobs[j].pc = "finalize" /\ jobs'[j].pc = "release"
             /\ jobs[j].proc = "exit0" /\ jobs[j].update.totalBytes > 0
             => /\ Len(sink'[j]) = Len(sink[j]) + 1
                /\ LastSnapshot(j)'.status = "success"
                /\ LastSnapshot(j)'.doneBytes = LastSnapshot(j)'.totalBytes
          /\ \A i \in DOMAIN sink'[j] :
                sink'[j][i].status = "success" /\ sink'[j][i].totalBytes > 0
                => sink'[j][i].doneBytes = sink'[j][i].totalBytes]_vars

\* A download of 1000 bytes ended with success and doneBytes = 1000 after its
\* last in-progress snapshot reported 200 bytes.
C14_CompletedFromPartial ==
    /\ Len(sink[1]) >= 4
    /\ LastSnapshot(1).status = "success"
    /\ LastSnapshot(1).totalBytes = 1000
    /\ LastSnapshot(1).doneBytes = 1000
    /\ sink[1][Len(sink[1]) - 1].doneBytes = 200

\* C15: after every matched progress line the etaSeconds of the job record is
\* (totalBytes - doneBytes) / speedBytesPerSec truncated, for the values just
\* parsed, when totalBytes > 0, the speed is positive and 0 <= doneBytes <=
\* totalBytes, and 0 otherwise, whether or not the line's snapshot was emitted.
C15_EtaAfterEveryLine ==
    [][\A j \in Jobs :
          /\ jobs[j].pc = "loop" /\ jobs'[j].pc = "loop"
          /\ jobs'[j].nread = jobs[j].nread + 1
          /\ ~jobs'[j].sawDiag
          => jobs'[j].update.etaSeconds
                \in EtaSeconds(jobs'[j].update.totalBytes, jobs'[j].doneBytes,
                               jobs'[j].speedBps)]_vars

\* C16: in every snapshot delivered, etaSeconds is not negative, and it is 0
\* when the snapshot's speedBytesPerSec is 0 or its totalBytes is 0.
C16_EtaNotNegative ==
    \A j \in Jobs : \A i \in Snapshots(j) :
       /\ Head(sink[j][i].etaSeconds) # "-"
       /\ sink[j][i].speedBytesPerSec.m = 0 \/ sink[j][i].totalBytes = 0
          => sink[j][i].etaSeconds = <<"0">>

\* C17: the ids returned by successful Enqueue calls are pairwise distinct,
\* also for calls made in the same millisecond; the id returned is the id of
\* the job's queued snapshot.
C17_IdsDistinct ==
    /\ \A j, k \in 1 .. transferSeq :
          j # k => sink[j][1].id # sink[k][1].id
    /\ ret.err = "" /\ transferSeq > 0 => ret.id = sink[transferSeq][1].id

\* Two jobs were enqueued in the same millisecond, and their ids differ.
C17_TwoIdsSameMillisecond ==
    /\ transferSeq = 2
    /\ sink[1][1].updatedAtMs = sink[2][1].updatedAtMs
    /\ sink[1][1].id[1] = sink[2][1].id[1]
    /\ sink[1][1].id # sink[2][1].id

\* The fields of a snapshot that identify the job.
Identity(u) == <<u.id, u.type, u.name, u.bucket, u.key, u.localPath, u.totalBytes>>

\* C18: id, kind, name, bucket, key, localPath and totalBytes are the same in
\* every snapshot of a job, from the queued one to the terminal one, and in
\* the job record runTransfer works on.
C18_IdentityFixed ==
    \A j \in Jobs :
       /\ \A i \in Snapshots(j) : Identity(sink[j][i]) = Identity(sink[j][1])
       /\ jobs[j].pc \notin {"idle", "done"} /\ sink[j] # <<>>
          => Identity(jobs[j].update) = Identity(sink[j][1])

\* An upload with a prefix went from queued through two progress snapshots
\* to its terminal snapshot, with the key "p/f" throughout.
C18_FiveSnapshotsOneIdentity ==
    /\ Len(sink[1]) = 5
    /\ sink[1][1].status = "queued"
    /\ sink[1][1].type = "upload"
    /\ sink[1][1].key = <<"p", "/", "f">>
    /\ sink[1][3].doneBytes # sink[1][1].doneBytes
    /\ LastSnapshot(1).status \in TerminalStatus

\* C19: a snapshot delivered to the sink has a non-empty message exactly when
\* its status is error: queued, in-progress and success snapshots have an
\* empty message, error snapshots a non-empty one.
C19_MessageIffError ==
    \A j \in Jobs : \A i \in Snapshots(j) :
       (sink[j][i].message # <<>>) = (sink[j][i].status = "error")

\* A job whose process printed a diagnostic and exited with an error: three
\* snapshots, the first two without a message, the error one with it.
C19_OnlyErrorHasMessage ==
    /\ Statuses(1) = <<"queued", "in-progress", "error">>
    /\ sink[1][1].message = <<>>
    /\ sink[1][2].message = <<>>
    /\ Len(sink[1][3].message) > Len(ExitErrorText)

\* C20: the limit is at least 1 and active at least 0 in every state;
\* setMaxTransferThreads(n) leaves the limit at 1 for n < 1 and at n otherwise
\* (getMaxTransferThreads returns it); Release takes one from active when it
\* is positive and leaves it at 0 otherwise, with or without an Acquire
\* before it.
C20_LimitAtLeastOne ==
    /\ [](/\ getMaxTransferThreads >= 1
          /\ transferLimiter.installed => transferLimiter.max >= 1
          /\ transferLimiter.active >= 0)
    /\ [][/\ \A n \in LimitInputs :
               SetMaxTransferThreads(n)
               => getMaxTransferThreads' = IF n < 1 THEN 1 ELSE n
          /\ ReleaseCall
             => transferLimiter'.active =
                   IF transferLimiter.active > 0 THEN transferLimiter.active - 1
                   ELSE 0]_vars

\* No job was ever enqueued, the limit was set on the installed limiter and
\* stands at 1, and a Release has just run with active at 0.
C20_ReleaseWithoutAcquire ==
    /\ transferSeq = 0
    /\ releasePending
    /\ setMaxPending
    /\ transferLimiter = [installed |-> TRUE, active |-> 0, max |-> 1]

\* The jobs blocked in cond.Wait, and the jobs that hold a slot.
Waiting == {j \in Jobs : jobs[j].pc = "waiting"}
Holds(j) ==
    jobs[j].pc \notin {"idle", "start", "install", "acquire", "waiting",
                       "broadcast", "done"}
\* A Release has decremented active and not yet done its Broadcast, or a
\* SetMax has assigned max and not yet done its Broadcast.
ReleaseSeen == releasePending \/ \E k \in Jobs : jobs[k].pc = "broadcast"
BroadcastPending == setMaxPending \/ ReleaseSeen

\* C21 as stated: when SetMax has raised the limit to m, with room for every
\* blocked job (m - active is at least their number), each of them comes to
\* hold a slot, unless a Release happens first or the limit is lowered below m
\* again.
C21_BlockedJobsAdmitted ==
    \A j \in Jobs : \A m \in AdmitLimits :
        [](/\ jobs[j].pc = "waiting" /\ setMaxPending
           /\ transferLimiter.max = m
           /\ m - transferLimiter.active >= Cardinality(Waiting)
           => <>(Holds(j) \/ ReleaseSeen \/ transferLimiter.max < m))

\* C21: a job stays blocked in Acquire only while no slot is free or a
\* Broadcast is on its way, and a blocked job beside a free slot comes to hold
\* a slot or finds the slots taken again (by a job that reached Acquire
\* before it woke, or by a lower limit): a raised limit needs no Release to
\* take effect.
C21_FreeSlotsAreTaken ==
    /\ [](\A j \in Waiting :
            transferLimiter.active >= transferLimiter.max \/ BroadcastPending)
    /\ \A j \in Jobs :
          [](jobs[j].pc = "waiting"
                /\ transferLimiter.active < transferLimiter.max
             => <>(Holds(j) \/ transferLimiter.active >= transferLimiter.max))

\* Two jobs are blocked behind the one that holds the only slot, and SetMax
\* has raised the limit to three.
C21_TwoBlockedLimitRaised ==
    /\ Cardinality(Waiting) = 2
    /\ setMaxPending
    /\ transferLimiter.active = 1 /\ transferLimiter.max = 3

\* The execution units that are at an assignment of s.ossutilPath (a settings
\* call, a one-shot command, a job), and the jobs that are at its read in
\* runOssutilWithProgress. None of these accesses takes a lock.
PathWriters ==
    (IF pathCall.op # "none" THEN {<<"call", 0>>} ELSE {})
    \cup (IF cmd.pc = "store" THEN {<<"cmd", 0>>} ELSE {})
    \cup {<<"job", j>> : j \in {k \in Jobs : jobs[k].pc = "store"}}
PathReaders == {<<"job", j>> : j \in {k \in Jobs : jobs[k].pc = "resolve"}}

\* C22 as stated: no execution unit is at a write of the binary-path
\* preference while another is at a read or a write of it, and no read
\* returns and no write leaves a value that nobody assigned. (The accesses
\* of the limiter's max are single steps under l.mu, and under
\* transferLimiterMu in getMaxTransferThreads and setMaxTransferThreads.)
C22_PathAccessesExclusive ==
    /\ \A w \in PathWriters : (PathWriters \cup PathReaders) \ {w} = {}
    /\ ossutilPath # TORN
    /\ cmd.primary # TORN
    /\ \A j \in Jobs : jobs[j].primary # TORN

\* The jobs whose kind is neither upload nor download (the queued snapshot
\* carries the kind for as long as the sink keeps it).
UnknownKind == {j \in Jobs : sink[j] # <<>> /\ sink[j][1].type \notin {"upload", "download"}}

IsBaseName(n, p) ==
    /\ n # <<>> /\ \A i \in 1 .. Len(n) : n[i] # "/"
    /\ \E k \in 0 .. (Len(p) - Len(n)) :
          /\ \A i \in (Len(p) - k + 1) .. Len(p) : p[i] = "/"
          /\ SubSeq(p, Len(p) - k - Len(n) + 1, Len(p) - k) = n
          /\ Len(p) - k - Len(n) > 0 => p[Len(p) - k - Len(n)] = "/"
\* p has no base name (it is empty or slashes only) or its base name is ".".
NoProperBase(p) ==
    \A a, b \in 1 .. Len(p) : IsBaseName(SubSeq(p, a, b), p) => SubSeq(p, a, b) = <<".">>
\* The queued snapshot the step has just delivered.
Queued == sink'[transferSeq'][1]

C25_TimestampsOrdered ==
    \A j \in Jobs : \A i \in 1 .. Len(sink[j]) :
        /\ i > 1 => sink[j][i - 1].updatedAtMs <= sink[j][i].updatedAtMs
        /\ sink[j][i].startedAtMs <= sink[j][i].updatedAtMs
        /\ sink[j][i].finishedAtMs =
             IF sink[j][i].status \in TerminalStatus THEN sink[j][i].updatedAtMs
             ELSE 0

\* Four snapshots of one job, each later than the one before: queued at 125,
\* started at 250, a progress snapshot at 375, finished at 500.
C25_FourSnapshotsFourTimes ==
    /\ Len(sink[1]) = 4
    /\ [i \in 1 .. 4 |-> sink[1][i].updatedAtMs] = <<125, 250, 375, 500>>
    /\ [i \in 1 .. 4 |-> sink[1][i].startedAtMs] = <<0, 250, 250, 250>>
    /\ [i \in 1 .. 4 |-> sink[1][i].finishedAtMs] = <<0, 0, 0, 500>>

\* The steps of Release: the decrement under l.mu, and the wake-up.
Decrements(j) == jobs[j].pc = "release" /\ jobs'[j].pc = "broadcast"
WakesUp(j) == jobs[j].pc = "broadcast" /\ jobs'[j].pc = "done"
\* The blocked jobs the step wakes.
WokenNow == {k \in Waiting : jobs'[k].pc = "acquire"}
FreeSlots ==
    IF transferLimiter.max > transferLimiter.active
    THEN transferLimiter.max - transferLimiter.active ELSE 0

\* C26 as stated: the wake-up of a Release wakes as many blocked jobs as there
\* are slots to claim, and no blocked job beyond them.
C26_WakesOnlyTheNeeded ==
    [][\A j \in Jobs :
          WakesUp(j) =>
             Cardinality(WokenNow) =
                IF Cardinality(Waiting) < FreeSlots THEN Cardinality(Waiting)
                ELSE FreeSlots]_vars

\* C26: Release decrements active (not below zero) and then wakes every job
\* blocked in Acquire; a job is admitted only by finding active < max under
\* the lock and taking that slot, so that one freed slot admits at most one
\* job and the other woken jobs wait again.
C26_WakesAllAdmitsByTest ==
    [][\A j \in Jobs :
          /\ Decrements(j) =>
                transferLimiter'.active =
                   IF transferLimiter.active > 0 THEN transferLimiter.active - 1
                   ELSE 0
          /\ WakesUp(j) => WokenNow = Waiting /\ UNCHANGED transferLimiter
          /\ jobs[j].pc = "acquire" /\ jobs'[j].pc = "admitted" =>
                /\ transferLimiter.active < transferLimiter.max
                /\ transferLimiter'.active = transferLimiter.active + 1
          /\ jobs[j].pc = "acquire" /\ jobs'[j].pc = "waiting" =>
                /\ transferLimiter.active >= transferLimiter.max
                /\ UNCHANGED transferLimiter]_vars

\* Two jobs are blocked, and the job that held the only slot has decremented
\* active and is about to wake them.
C26_TwoBlockedOneSlotFreed ==
    /\ Cardinality(Waiting) = 2
    /\ \E j \in Jobs : jobs[j].pc = "broadcast"
    /\ transferLimiter.active = 0 /\ transferLimiter.max = 1

\* The smaller of two numbers.
Min(a, b) == IF a < b THEN a ELSE b

\* C27: whatever lines a ring buffer of capacity cap was given, its content
\* is no longer than cap and is the last min(cap, bytes given) bytes of the
\* newline-terminated lines it was given: a line of cap bytes or more leaves
\* its last cap bytes, and a shorter one evicts no more than it needs.
C27_LastBytesOfStream ==
    ringBuffer.cap > 0 =>
        /\ Len(ringBuffer.data) <= ringBuffer.cap
        /\ EndsWith(ringBuffer.stream, ringBuffer.data)
        /\ Len(ringBuffer.data) = Min(ringBuffer.cap, Len(ringBuffer.stream))

\* A buffer of capacity 4 was given "ab" twice: of the first line the newline
\* is left, and the second line is whole.
C27_EvictedPartOfALine ==
    /\ ringBuffer.cap = 4
    /\ ringBuffer.stream = <<"a", "b", "\n", "a", "b", "\n">>
    /\ ringBuffer.data = <<"\n", "a", "b", "\n">>

\* The lines of a whole text: what stands between one "\r" or "\n" (or the
\* start) and the next (or the end), trimmed, the empty ones left out. c is
\* the position of the delimiter before the line.
RECURSIVE LinesFrom(_, _)
LinesFrom(s, c) ==
    IF c > Len(s) THEN <<>>
    ELSE LET ends == {i \in (c + 1) .. Len(s) : s[i] \in {"\r", "\n"}}
             n == IF ends = {} THEN Len(s) + 1
                  ELSE CHOOSE i \in ends : \A k \in ends : i <= k
             seg == TrimSpace(SubSeq(s, c + 1, n - 1))
         IN  (IF seg # <<>> THEN <<seg>> ELSE <<>>) \o LinesFrom(s, n)
TrimmedLines(s) == LinesFrom(s, 0)

\* C28: when splitOnCRLF returns at end-of-stream, the lines it has emitted
\* are the trimmed non-empty lines of the whole stream, in their order, in
\* whatever chunks the stream was read.
C28_SameLinesForEveryChunking ==
    splitter.state = "nil" => splitter.out = TrimmedLines(splitter.stream)

\* "aaa\r\n" read byte by byte: the line comes in three chunks, "\r" and
\* "\n" in two more, and the one line is emitted once.
C28_ReadByteByByte ==
    /\ splitter.state = "nil"
    /\ splitter.stream = <<"a", "a", "a", "\r", "\n">>
    /\ splitter.chunks = 5
    /\ splitter.out = <<<<"a", "a", "a">>>>

\* The position of the last "\r" or "\n" of s (0 when it has none), the
\* lines of s that end in one, and what follows the last one, trimmed.
LastDelim(s) ==
    LET ends == {i \in 1 .. Len(s) : s[i] \in {"\r", "\n"}}
    IN  IF ends = {} THEN 0 ELSE CHOOSE i \in ends : \A k \in ends : k <= i
CompleteLines(s) == TrimmedLines(SubSeq(s, 1, LastDelim(s)))
PartialLine(s) == TrimSpace(SubSeq(s, LastDelim(s) + 1, Len(s)))
\* The bytes the Reads have returned so far.
BytesRead == SubSeq(splitter.stream, 1, Len(splitter.stream) - Len(splitter.rest))

\* C29: a call that returned nil has read the whole stream and emitted its
\* complete lines and then the trailing partial line, unless that is empty
\* when trimmed; a call that returned another error has emitted the complete
\* lines of the bytes read up to and with the failing Read, and not the
\* partial line, which is still pending.
C29_FlushOnlyAtEndOfStream ==
    /\ splitter.state = "nil" =>
          /\ splitter.rest = <<>>
          /\ splitter.out =
                CompleteLines(splitter.stream)
                \o (IF PartialLine(splitter.stream) # <<>>
                    THEN <<PartialLine(splitter.stream)>> ELSE <<>>)
    /\ splitter.state = "err" =>
          /\ splitter.out = CompleteLines(BytesRead)
          /\ splitter.pending =
                SubSeq(BytesRead, LastDelim(BytesRead) + 1, Len(BytesRead))

\* One Read returned "a\na" together with an error: the first line was
\* emitted, the second is pending and was not.
C29_ErrorWithBytes ==
    /\ splitter.state = "err"
    /\ splitter.stream = <<"a", "\n", "a">> /\ splitter.chunks = 1
    /\ splitter.rest = <<>>
    /\ splitter.out = <<<<"a">>>> /\ splitter.pending = <<"a">>

\* C30: a line in which at least one of the three patterns matches sets
\* doneBytes and the speed from what matched, calls emit (a snapshot with
\* these values is delivered, unless the last one is less than emitInterval
\* old) and leaves the ring buffer as it is; a line in which none matches
\* goes to the ring buffer and leaves doneBytes, the speed, the snapshot and
\* the sink as they are.
C30_ProgressOrDiagnostic ==
    [][\A j \in Jobs : \A line \in Lines :
          ReadLine(j, line) =>
             LET p == parseProgressSegment(stripANSI(line))
                 seg == TrimSpace(stripANSI(line))
             IN  IF p.hasDone \/ p.hasSpeed \/ p.hasPercent
                 THEN /\ jobs'[j].outputTail = jobs[j].outputTail
                      /\ p.hasDone => jobs'[j].doneBytes = p.doneBytes
                      /\ p.hasSpeed => jobs'[j].speedBps = p.speedBps
                      /\ \/ /\ Len(sink'[j]) = Len(sink[j]) + 1
                            /\ sink'[j][Len(sink'[j])].status = "in-progress"
                            /\ sink'[j][Len(sink'[j])].doneBytes = jobs'[j].doneBytes
                            /\ sink'[j][Len(sink'[j])].speedBytesPerSec
                                  = jobs'[j].speedBps
                         \/ /\ sink' = sink
                            /\ jobs[j].lastEmit # ZeroTime
                            /\ now - jobs[j].lastEmit < emitInterval
                 ELSE /\ jobs'[j].outputTail = jobs[j].outputTail \o RawLine(seg)
                      /\ jobs'[j].doneBytes = jobs[j].doneBytes
                      /\ jobs'[j].speedBps = jobs[j].speedBps
                      /\ jobs'[j].update = jobs[j].update
                      /\ jobs'[j].lastEmit = jobs[j].lastEmit
                      /\ sink' = sink]_vars

\* Of the two lines a job has read, the progress line set doneBytes and was
\* delivered as a snapshot, and the other line is all the ring buffer holds.
C30_OneOfEach ==
    /\ jobs[1].pc = "loop" /\ jobs[1].nread = 2
    /\ jobs[1].doneBytes = 5 /\ Len(sink[1]) = 3
    /\ sink[1][3].doneBytes = 5
    /\ jobs[1].outputTail = <<"E", "\n">>

\* C31: a matched progress line sets doneBytes to its byte count when it has
\* one, otherwise to the whole part of totalBytes * percent / 100 when it has
\* a percentage and totalBytes > 0, and otherwise leaves it; it sets the
\* speed to the line's speed when it has one and otherwise leaves it.
C31_DoneAndSpeedFromLine ==
    [][\A j \in Jobs : \A line \in PercentLines :
          ReadLine(j, line) =>
             LET p == parseProgressSegment(stripANSI(line))
                 total == jobs[j].update.totalBytes
             IN  p.hasDone \/ p.hasSpeed \/ p.hasPercent
                 => /\ jobs'[j].doneBytes =
                          IF p.hasDone THEN p.doneBytes
                          ELSE IF p.hasPercent /\ total > 0
                          THEN PercentOf_Exact(total, p.percent)
                          ELSE jobs[j].doneBytes
                    /\ jobs'[j].speedBps =
                          IF p.hasSpeed THEN p.speedBps
                          ELSE jobs[j].speedBps]_vars

\* x * 1024^k, with 1024 = 2^10.
Times1024(x, k) == Scaled(x.m, x.p + 10 * k, x.q)

\* C32: whatever the case of the letters and the colour codes around the line,
\* and whatever else the line holds, the parser finds the byte count of an
\* "OK size:" text with its separators removed, the number of a "Progress:"
\* text, and the speed of a "Speed:" text, the number times 1024^k with k = 0
\* for no prefix and k = 1..5 for K, M, G, T, P; it finds none of them where
\* the line holds no such text.
C32_ParsesEachPattern ==
    parsed.called =>
        /\ parsed.out.hasDone = parsed.in.size.has
        /\ parsed.in.size.has => parsed.out.doneBytes = parsed.in.size.value
        /\ parsed.out.hasPercent = parsed.in.percent.has
        /\ parsed.in.percent.has
           => parsed.out.percent = Float(parsed.in.percent.m, parsed.in.percent.e)
        /\ parsed.out.hasSpeed = parsed.in.speed.has
        /\ parsed.in.speed.has
           => parsed.out.speedBps =
                 Times1024(Float(parsed.in.speed.m, parsed.in.speed.e),
                           parsed.in.speed.k)
        /\ parsed.in.speed.has /\ parsed.in.speed.k <= 2
           => parsed.out.speedBps =
                 Float(parsed.in.speed.m * 1024 ^ parsed.in.speed.k,
                       parsed.in.speed.e)

\* "OK SIZE: 1,048,576, PROGRESS: 45.5%, SPEED: 2.50MB/S" in colour gives
\* 1048576 bytes, 45.5 per cent and 2.5 * 1024 * 1024 bytes per second.
C32_AllThreeInCapitals ==
    /\ parsed.called
    /\ parsed.in.case = "upper" /\ parsed.in.wrap = "colour"
    /\ parsed.in.size.value = 1048576
    /\ parsed.in.percent.m = 455
    /\ parsed.in.speed.k = 2
    /\ parsed.out.doneBytes = 1048576
    /\ parsed.out.percent = Float(455, 1)
    /\ parsed.out.speedBps = Float(2621440, 0)

\* C33: when the call returns, so that runTransfer computes the final status,
\* both readers have returned with nothing of their streams left unread,
\* every line they sent has been taken by the loop, and cmd.Wait has
\* returned.
C33_StatusAfterStreamsEnd ==
    pipeline.pc = "returned"
    => /\ \A s \in Streams : /\ pipeline.reader[s].pc = "done"
                              /\ pipeline.pipe[s].buf = 0
       /\ pipeline.segments.len = 0
       /\ pipeline.consumed = pipeline.sent
       /\ pipeline.waited

\* C34: however many lines the process has to write, a call that has started
\* its goroutines returns, with the process exited.
C34_CallReturns ==
    (pipeline.pc = "running") ~> (pipeline.pc = "returned" /\ pipeline.exited)

\* The call has returned after the loop took four lines of each stream, more
\* than a pipe, a reader and the channel hold together.
C34_ReturnedAfterEightLines ==
    /\ pipeline.pc = "returned"
    /\ pipeline.consumed = 8
    /\ pipeline.consumed > 2 * (MaxPipeLines + 1) + MaxSegments


\* C35: the active count is the number of jobs between their return from
\* Acquire and their call of Release, whatever way runTransfer takes (unknown
\* kind, no binary started, non-zero exit, success): a job calls Release once,
\* after its terminal snapshot, and the call takes one slot back; so when
\* every job started has returned the active count is 0.
C35_ReleasedOncePerJob ==
    /\ transferLimiter.active = Cardinality({j \in Jobs : Holds(j)})
    /\ \A j \in Jobs : jobs[j].pc = "release" =>
          /\ Len(sink[j]) > 0
          /\ LastSnapshot(j).status \in TerminalStatus
    /\ (\A j \in Jobs : jobs[j].pc \in {"idle", "done"}) => transferLimiter.active = 0

\* Two jobs have returned under a limit of two slots, one of an unknown kind
\* and one whose two binaries both failed to start (the configured one, and
\* then the default one, which is not on the PATH), and no slot is held.
C35_TwoWaysOutNoSlotHeld ==
    /\ \A j \in Jobs : jobs[j].pc \in {"idle", "done"}
    /\ transferLimiter = [installed |-> TRUE, active |-> 0, max |-> 2]
    /\ ossutilPath = BAD
    /\ {LastSnapshot(j).message : j \in {j \in Jobs : jobs[j].pc = "done"}} =
         {<<"unknown transfer type">>, StartError("ErrNotFound")}


\* The jobs inside limiter.Acquire(), blocked or about to test the count.
InAcquire == {j \in Jobs : jobs[j].pc \in {"acquire", "waiting"}}
\* The process of job j is not left running for ever.
ProcessEnds(j) == []<>(jobs[j].proc # "running")

\* C36: no wakeup is lost. Of the jobs blocked in cond.Wait at any moment,
\* while a slot stays free, one comes to hold a slot (the others find the
\* slots taken, or the limit lowered); and when the process of every job
\* ends, no job stays inside Acquire: the queue drains.
C36_BlockedJobsDrain ==
    /\ \A S \in (SUBSET Jobs) \ {{}} :
          [](Waiting = S /\ transferLimiter.active < transferLimiter.max
             => <>(\/ transferLimiter.active >= transferLimiter.max
                   \/ \E j \in S : Holds(j) \/ Released(j)))
    /\ (\A j \in Jobs : ProcessEnds(j))
          => \A j \in Jobs : []<>(j \notin InAcquire)

\* Two jobs are blocked in Acquire beside a free slot: the job that held the
\* only slot has taken it back and is at its Broadcast.
C36_TwoBlockedSlotFree ==
    /\ Cardinality(Waiting) = 2
    /\ transferLimiter.active = 0 /\ transferLimiter.max = 1
    /\ ~setMaxPending
    /\ \E k \in Jobs : jobs[k].pc = "broadcast"


\* The jobs that have their limiter in hand: past lines 362-374 and not yet
\* returned.
HasLimiter(j) == jobs[j].pc \notin {"idle", "start", "install", "done"}

\* C37: the service has one limiter. The pointer s.transferLimiter is assigned
\* once, by whichever of runTransfer and setMaxTransferThreads finds it nil
\* first; every job calls Acquire and Release on the limiter the service
\* points to; and once a limiter is installed its max changes only in a
\* setMaxTransferThreads call, so that a job that installs or picks up the
\* limiter leaves a limit set before it as it is.
C37_OneLimiterInstance ==
    /\ [](/\ transferLimiterPtr \in {0, 1}
          /\ (transferLimiterPtr # 0) = transferLimiter.installed
          /\ \A j \in Jobs : HasLimiter(j) =>
                jobs[j].limiter # 0 /\ jobs[j].limiter = transferLimiterPtr)
    /\ [][transferLimiter.installed =>
            /\ transferLimiterPtr' = transferLimiterPtr
            /\ transferLimiter'.max # transferLimiter.max
               => ~setMaxPending /\ setMaxPending']_vars

\* Job 2 has read a nil pointer and is about to install its own limiter,
\* while job 1 holds a slot of the installed one, whose limit was set to 2.
C37_LateInstallerBesideHolder ==
    /\ jobs[2].pc = "install" /\ jobs[2].limiter = 0
    /\ jobs[1].pc = "loop" /\ jobs[1].limiter = 1
    /\ transferLimiter = [installed |-> TRUE, active |-> 1, max |-> 2]


\* A step of setMaxTransferThreads up to its unlock of l.mu, and the steps
\* job j has before it while it holds a slot.
SetMaxStep == ~setMaxPending /\ setMaxPending'
HolderStep(j) == RunStep(j) \/ FallbackStep(j) \/ Release(j)

\* C38: a SetMax that lowers the limit below the active count changes neither
\* the count nor any job, and every job that holds a slot can go on, whatever
\* the limit is; a job comes to hold a slot only in a step that starts with
\* active < max, and the count goes down only by one, in the Release of a job.
C38_LoweredLimitWaitsForReleases ==
    /\ [](\A j \in Jobs : Holds(j) => ENABLED HolderStep(j))
    /\ [][/\ SetMaxStep => /\ jobs' = jobs
                           /\ transferLimiter'.active = transferLimiter.active
          /\ \A j \in Jobs : ~Holds(j) /\ Holds(j)'
                => /\ jobs[j].pc = "acquire"
                   /\ transferLimiter.active < transferLimiter.max
          /\ transferLimiter'.active < transferLimiter.active
                => /\ transferLimiter'.active = transferLimiter.active - 1
                   /\ \E j \in Jobs : Holds(j) /\ ~Holds(j)']_vars

\* The limit was lowered to one while two jobs hold slots: the third job is
\* blocked in Acquire, and one of the two has seen its process exit.
C38_TwoHoldUnderLimitOfOne ==
    /\ transferLimiter.active = 2 /\ transferLimiter.max = 1
    /\ ~setMaxPending
    /\ Cardinality(Waiting) = 1
    /\ \E j \in Jobs : jobs[j].pc = "loop" /\ jobs[j].proc = "exit0"


\* Job j has delivered its terminal snapshot and still has the doneBytes and
\* speedBps its loop left (the values of the last lines matched).
AtReturn(j) == jobs[j].pc = "release" /\ jobs[j].kind \in {"download", "upload"}

\* C39 as stated: the terminal snapshot of a job, success or error, has the
\* speed its loop parsed last, and the doneBytes it parsed last unless the
\* success path has set doneBytes to totalBytes, whether or not the last
\* lines were emitted.
C39_TerminalHasLastLine ==
    \A j \in Jobs : AtReturn(j) =>
        /\ LastSnapshot(j).status \in TerminalStatus
        /\ LastSnapshot(j).speedBytesPerSec = jobs[j].speedBps
        /\ \/ LastSnapshot(j).doneBytes = jobs[j].doneBytes
           \/ /\ LastSnapshot(j).status = "success"
              /\ LastSnapshot(j).totalBytes > 0
              /\ LastSnapshot(j).doneBytes = LastSnapshot(j).totalBytes


\* C40 as stated: every snapshot in the sink has the etaSeconds that its own
\* totalBytes, doneBytes and speedBytesPerSec give: the whole part of
\* (totalBytes - doneBytes) / speedBytesPerSec when totalBytes > 0, the speed is
\* above 0 and 0 <= doneBytes <= totalBytes, and 0 otherwise; so a success
\* snapshot with doneBytes = totalBytes has etaSeconds 0.
C40_EtaOfSameSnapshot ==
    \A j \in Jobs : \A i \in 1 .. Len(sink[j]) :
        LET u == sink[j][i]
        IN  u.etaSeconds =
              IF /\ u.totalBytes > 0 /\ u.speedBytesPerSec.m > 0
                 /\ u.doneBytes >= 0 /\ u.doneBytes <= u.totalBytes
              THEN QuotientText(u.totalBytes - u.doneBytes, u.speedBytesPerSec)
              ELSE <<"0">>

====
